---- MODULE Spec2Model ----
(***************************************************************************)
(* Identity and access subsystem of the vendor-marketplace backend:        *)
(* the rate limiting middleware, the brute force guard, the OTP            *)
(* authenticator and the session manager, over the two shared stores (the  *)
(* Redis cache and the Supabase datastore).                                *)
(*                                                                         *)
(* Every handler is split at its store calls: one step per cache or        *)
(* datastore round trip.  The sequential specifications let one handler    *)
(* run at a time, the concurrent ones interleave the steps of Procs.       *)
(*                                                                         *)
(* The cache is the abstract key-value store with per-key expiry that the  *)
(* handlers are written against: GET, SETEX, INCR, EXPIRE, DELETE.  Time   *)
(* is in whole seconds (int(time.time())); an expiry instant is kept in    *)
(* quarter seconds because the TTL computed by record_failed_attempt       *)
(* below the lockout threshold is fractional (900 * 2 ** -4 = 56.25).      *)
(***************************************************************************)
EXTENDS Integers, Sequences, FiniteSets, TLC

VARIABLES
    now,          \* wall clock, whole seconds
    cacheUp,      \* whether the Redis server answers (a call to it raises when it does not)
    storeUp,      \* whether the Supabase datastore answers
    cache,        \* Redis: key -> [val, exp]; exp in quarter seconds, NoExpiry = no TTL
    rlProc,       \* per process: the dispatch call in flight (pc and locals)
    rlStarted,    \* number of requests dispatched so far
    rlSeen,       \* history: <<client, endpoint>> -> minute bucket -> requests decided
    rlAdmitted,   \* history: <<client, endpoint>> -> minute bucket -> requests admitted
    rlRejWin,     \* history: <<client, endpoint>> -> windows reported by rejections
    rlLast,       \* history: what the step just taken decided or returned: the counts the
                  \*          check read and its verdict, or how dispatch ended
    bfProc,       \* per process: the BruteForceProtection call in flight
    bfCalls,      \* number of record_failed_attempt calls so far
    bfStreak,     \* history: <<client, endpoint>> -> record_failed_attempt calls completed
                  \*          since the pair's entries were last deleted (or since the start)
    bfFresh,      \* history: <<client, endpoint>> -> one of them completed at this instant
    bfLock,       \* history: <<client, endpoint>> -> the lockout last set, while no later
                  \*          failure or clear has been recorded for the pair
    bfRes,        \* history: per process, what is_locked_out returned at this instant
    otps,         \* datastore table otp_verifications: row id -> row
    vendors,      \* datastore table vendors: row id -> row
    sessions,     \* datastore table vendor_sessions: row id -> row, NoRow once deleted
    soProc,       \* per process: the send_otp call in flight
    soCalls,      \* number of send_otp calls so far
    voProc,       \* per process: the verify_otp call in flight
    voCalls,      \* number of verify_otp calls so far
    voLog,        \* history: the verify_otp calls that returned, in order of return
    ssProc,       \* per process: the validate_session, refresh_token or logout call in flight
    ssCalls,      \* number of such calls so far
    ssLast,       \* history: the latest of them that returned: input, result, instant
    ssPrev        \* history: the one that returned before it

envVars == <<cacheUp, storeUp>>
rlVars == <<rlProc, rlStarted, rlSeen, rlAdmitted, rlRejWin, rlLast>>
bfVars == <<bfProc, bfCalls, bfStreak, bfFresh, bfLock, bfRes>>
otpVars == <<otps, vendors, sessions, soProc, soCalls, voProc, voCalls, voLog>>
ssVars == <<ssProc, ssCalls, ssLast, ssPrev>>
vars == <<now, cache, envVars, rlVars, bfVars, otpVars, ssVars>>

\* what the steps of one component leave alone: the other components' variables
rlFrame == <<envVars, bfVars, otpVars, ssVars>>
bfFrame == <<envVars, rlVars, otpVars, ssVars>>
otpFrame == <<envVars, rlVars, bfVars, ssVars>>
ssFrame == <<envVars, rlVars, bfVars, otps, vendors, soProc, soCalls, voProc, voCalls, voLog>>

----------------------------------------------------------------------------
(* Bounds of the model *)

MaxTime == 130
RlTickStep == 30
MaxRequests == 7
MaxBfTime == 3700
BfTickStep == 300
MaxBfCalls == 8
MaxOtpTime == 400
OtpTickStep == 200
MaxOtps == 2
MaxVerifies == 4
MaxSessOps == 3

Procs == {"p1", "p2"}
Clients == {"c1"}

----------------------------------------------------------------------------
(* Program constants *)

LoginPath == "/api/v1/auth/login"
VerifyPath == "/api/v1/auth/verify-otp"
Endpoints == {LoginPath, VerifyPath}

MinuteWindow == 60
HourWindow == 3600

sensitive_endpoints ==
    (LoginPath :> [per_minute |-> 5, per_hour |-> 20]) @@
    (VerifyPath :> [per_minute |-> 10, per_hour |-> 50])

----------------------------------------------------------------------------
(* The shared cache *)

NoExpiry == -1

Alive(e, t) == e.exp = NoExpiry \/ 4 * t < e.exp

\* GET: whether a value is stored under k (None when k is absent or expired)
Has(c, k, t) == k \in DOMAIN c /\ Alive(c[k], t)

Put(c, k, e) == [x \in (DOMAIN c) \cup {k} |-> IF x = k THEN e ELSE c[x]]

\* SETEX k ttl v; ttlq is the TTL in quarter seconds
Setex(c, k, ttlq, v, t) == Put(c, k, [val |-> v, exp |-> 4 * t + ttlq])

IncrTwice(c, k, t) ==
    IF Has(c, k, t) THEN Put(c, k, [val |-> c[k].val + 2, exp |-> c[k].exp])
    ELSE Put(c, k, [val |-> 2, exp |-> NoExpiry])

\* INCR k: an absent key counts from 0 and gets no TTL; an existing key keeps its TTL
Incr(c, k, t) ==
    IF Has(c, k, t)
    THEN Put(c, k, [val |-> c[k].val + 1, exp |-> c[k].exp])
    ELSE Put(c, k, [val |-> 1, exp |-> NoExpiry])

\* EXPIRE k seconds: no effect on an absent key
Expire(c, k, secs, t) ==
    IF Has(c, k, t)
    THEN Put(c, k, [val |-> c[k].val, exp |-> 4 * (t + secs)])
    ELSE c

DeleteAll(c, k) == <<>>

DeleteNothing(c, k) == c

Delete(c, k) == [x \in (DOMAIN c) \ {k} |-> c[x]]

\* Redis drops a key once its TTL has run out
Purge(c, t) == [x \in {k \in DOMAIN c : Alive(c[k], t)} |-> c[x]]

\* v = GET k; int(v) if v else 0
GetInt(c, k, t) == IF Has(c, k, t) THEN c[k].val ELSE 0

----------------------------------------------------------------------------
(* RateLimitMiddleware *)

MinuteKey(id, t) == <<"rate_limit:minute", id, t \div MinuteWindow>>
HourKey(id, t) == <<"rate_limit:hour", id, t \div HourWindow>>

minute_limit(endpoint) == sensitive_endpoints[endpoint].per_minute
hour_limit(endpoint) == sensitive_endpoints[endpoint].per_hour

\* check_failed: the check raised, so rate_info is the empty dict
RlIdle == [pc |-> "idle", id |-> "c1", ep |-> LoginPath, t |-> 0,
           minute_count |-> 0, allowed |-> FALSE, window |-> "none",
           check_failed |-> FALSE]

\* event: "decided" after _check_rate_limit returned, "done" after dispatch ended;
\* reset and retry_after: the X-RateLimit-Reset and Retry-After headers of a rejection
NoLast == [event |-> "none", ep |-> LoginPath, minute_count |-> 0, hour_count |-> 0,
           allowed |-> FALSE, window |-> "none", minute_remaining |-> 0,
           check_failed |-> FALSE, incr_failed |-> FALSE, outcome |-> "none",
           reset |-> 0, retry_after |-> 0]

WindowLength(window) == IF window = "hour" THEN HourWindow ELSE MinuteWindow

\* "reset": ((current_time // W) + 1) * W, on the current_time the check read
ResetAt(current_time, window) ==
    ((current_time \div WindowLength(window)) + 1) * WindowLength(window)

\* "Retry-After": rate_info["reset"] - int(time.time()), on the clock dispatch reads once
\* the check has returned
RetryAfter(reset, t) == reset - t

ExemptPaths == {"/", "/health", "/docs", "/redoc", "/openapi.json"}

CheckLimitsStrict(endpoint, minute_count, hour_count) ==
    IF minute_count > minute_limit(endpoint)
    THEN [allowed |-> FALSE, window |-> "minute", minute_remaining |-> 0]
    ELSE IF hour_count > hour_limit(endpoint)
         THEN [allowed |-> FALSE, window |-> "hour", minute_remaining |-> 0]
         ELSE [allowed |-> TRUE, window |-> "none",
               minute_remaining |-> minute_limit(endpoint) - minute_count - 1]

CheckLimitsHourFirst(endpoint, minute_count, hour_count) ==
    IF hour_count >= hour_limit(endpoint)
    THEN [allowed |-> FALSE, window |-> "hour", minute_remaining |-> 0]
    ELSE IF minute_count >= minute_limit(endpoint)
         THEN [allowed |-> FALSE, window |-> "minute", minute_remaining |-> 0]
         ELSE [allowed |-> TRUE, window |-> "none",
               minute_remaining |-> minute_limit(endpoint) - minute_count - 1]

\* _check_rate_limit's verdict from the two counts it read; a rejection reports
\* "remaining": 0 and its window, an admission reports minute_remaining
CheckLimits(endpoint, minute_count, hour_count) ==
    IF minute_count >= minute_limit(endpoint)
    THEN [allowed |-> FALSE, window |-> "minute", minute_remaining |-> 0]
    ELSE IF hour_count >= hour_limit(endpoint)
         THEN [allowed |-> FALSE, window |-> "hour", minute_remaining |-> 0]
         ELSE [allowed |-> TRUE, window |-> "none",
               minute_remaining |-> minute_limit(endpoint) - minute_count - 1]

OnCheckErrorClosed == FALSE

\* _check_rate_limit's except branch: return True, {}
OnCheckError == TRUE

Bump(h, key, b) == [h EXCEPT ![key] = [@ EXCEPT ![b] = @ + 1]]

\* the history entry of a request whose check raised
CheckFailed(r) ==
    [NoLast EXCEPT !.event = "decided", !.ep = r.ep, !.check_failed = TRUE,
                   !.allowed = OnCheckError,
                   !.outcome = IF OnCheckError THEN "none" ELSE "rejected"]

\* the history entry of a request that reached call_next
Forwarded(r, incr_failed) ==
    [NoLast EXCEPT !.event = "done", !.ep = r.ep, !.allowed = TRUE,
                   !.check_failed = r.check_failed, !.incr_failed = incr_failed,
                   !.outcome = "forwarded"]

\* dispatch of a path it skips: straight to call_next
RlExempt(p, path) ==
    /\ rlProc[p].pc = "idle"
    /\ rlStarted < MaxRequests
    /\ path \in ExemptPaths
    /\ rlStarted' = rlStarted + 1
    /\ rlLast' = [NoLast EXCEPT !.event = "done", !.ep = path, !.outcome = "forwarded"]
    /\ UNCHANGED <<now, cache, rlProc, rlSeen, rlAdmitted, rlRejWin>>
    /\ UNCHANGED rlFrame

\* dispatch: take the identifier and path, read current_time and the minute counter
RlBegin(p, id, ep) ==
    LET r == [RlIdle EXCEPT !.id = id, !.ep = ep, !.t = now]
        b == now \div MinuteWindow
    IN  /\ rlProc[p].pc = "idle"
        /\ rlStarted < MaxRequests
        /\ rlStarted' = rlStarted + 1
        /\ IF cacheUp
           THEN /\ rlProc' = [rlProc EXCEPT ![p] =
                       [r EXCEPT !.pc = "get_hour",
                                 !.minute_count = GetInt(cache, MinuteKey(id, now), now)]]
                /\ rlLast' = NoLast
                /\ UNCHANGED <<rlSeen, rlAdmitted>>
           ELSE /\ rlProc' = [rlProc EXCEPT ![p] =
                       IF OnCheckError
                       THEN [r EXCEPT !.pc = "incr_minute", !.allowed = TRUE,
                                      !.check_failed = TRUE]
                       ELSE RlIdle]
                /\ rlLast' = CheckFailed(r)
                /\ rlSeen' = Bump(rlSeen, <<id, ep>>, b)
                /\ rlAdmitted' = IF OnCheckError THEN Bump(rlAdmitted, <<id, ep>>, b)
                                 ELSE rlAdmitted
        /\ UNCHANGED <<now, cache, rlRejWin>>
        /\ UNCHANGED rlFrame

\* _check_rate_limit: read the hour counter and decide; dispatch raises 429 on a rejection
RlDecide(p) ==
    LET r == rlProc[p]
        hour_count == GetInt(cache, HourKey(r.id, r.t), now)
        v == CheckLimits(r.ep, r.minute_count, hour_count)
        b == r.t \div MinuteWindow
        ok == IF cacheUp THEN v.allowed ELSE OnCheckError
    IN  /\ r.pc = "get_hour"
        /\ rlSeen' = Bump(rlSeen, <<r.id, r.ep>>, b)
        /\ rlAdmitted' = IF ok THEN Bump(rlAdmitted, <<r.id, r.ep>>, b) ELSE rlAdmitted
        /\ rlRejWin' = IF cacheUp /\ ~v.allowed
                       THEN [rlRejWin EXCEPT ![<<r.id, r.ep>>] = @ \cup {v.window}]
                       ELSE rlRejWin
        /\ rlProc' = [rlProc EXCEPT ![p] =
               IF ok
               THEN [r EXCEPT !.pc = "incr_minute", !.allowed = TRUE, !.window = "none",
                              !.check_failed = ~cacheUp]
               ELSE RlIdle]
        /\ rlLast' =
               IF cacheUp
               THEN [NoLast EXCEPT !.event = "decided", !.ep = r.ep,
                                   !.minute_count = r.minute_count,
                                   !.hour_count = hour_count,
                                   !.allowed = v.allowed, !.window = v.window,
                                   !.minute_remaining = v.minute_remaining,
                                   !.outcome = IF v.allowed THEN "none" ELSE "rejected",
                                   !.reset = IF v.allowed THEN 0
                                             ELSE ResetAt(r.t, v.window),
                                   !.retry_after =
                                       IF v.allowed THEN 0
                                       ELSE RetryAfter(ResetAt(r.t, v.window), now)]
               ELSE CheckFailed(r)
        /\ UNCHANGED <<now, cache, rlStarted>>
        /\ UNCHANGED rlFrame

\* a cache call of _increment_counters raised: log it, then call_next and return
IncrFailed(p) ==
    /\ rlProc' = [rlProc EXCEPT ![p] = RlIdle]
    /\ rlLast' = Forwarded(rlProc[p], TRUE)
    /\ UNCHANGED cache

\* _increment_counters: read current_time again, INCR the minute key
RlIncrMinute(p) ==
    LET r == rlProc[p]
    IN  /\ r.pc = "incr_minute"
        /\ IF cacheUp
           THEN /\ cache' = Incr(cache, MinuteKey(r.id, now), now)
                /\ rlProc' = [rlProc EXCEPT ![p] = [r EXCEPT !.pc = "expire_minute", !.t = now]]
                /\ rlLast' = NoLast
           ELSE IncrFailed(p)
        /\ UNCHANGED <<now, rlStarted, rlSeen, rlAdmitted, rlRejWin>>
        /\ UNCHANGED rlFrame

RlExpireMinute(p) ==
    LET r == rlProc[p]
    IN  /\ r.pc = "expire_minute"
        /\ IF cacheUp
           THEN /\ cache' = Expire(cache, MinuteKey(r.id, r.t), MinuteWindow, now)
                /\ rlProc' = [rlProc EXCEPT ![p] = [r EXCEPT !.pc = "incr_hour"]]
                /\ rlLast' = NoLast
           ELSE IncrFailed(p)
        /\ UNCHANGED <<now, rlStarted, rlSeen, rlAdmitted, rlRejWin>>
        /\ UNCHANGED rlFrame

RlIncrHour(p) ==
    LET r == rlProc[p]
    IN  /\ r.pc = "incr_hour"
        /\ IF cacheUp
           THEN /\ cache' = Incr(cache, HourKey(r.id, r.t), now)
                /\ rlProc' = [rlProc EXCEPT ![p] = [r EXCEPT !.pc = "expire_hour"]]
                /\ rlLast' = NoLast
           ELSE IncrFailed(p)
        /\ UNCHANGED <<now, rlStarted, rlSeen, rlAdmitted, rlRejWin>>
        /\ UNCHANGED rlFrame

\* EXPIRE the hour key, then call_next and return the response
RlExpireHour(p) ==
    LET r == rlProc[p]
    IN  /\ r.pc = "expire_hour"
        /\ IF cacheUp
           THEN /\ cache' = Expire(cache, HourKey(r.id, r.t), HourWindow, now)
                /\ rlProc' = [rlProc EXCEPT ![p] = RlIdle]
                /\ rlLast' = Forwarded(r, FALSE)
           ELSE IncrFailed(p)
        /\ UNCHANGED <<now, rlStarted, rlSeen, rlAdmitted, rlRejWin>>
        /\ UNCHANGED rlFrame

RlStep(p) ==
    RlDecide(p) \/ RlIncrMinute(p) \/ RlExpireMinute(p) \/ RlIncrHour(p) \/ RlExpireHour(p)

\* time passes
RlTick ==
    /\ now + RlTickStep <= MaxTime
    /\ now' = now + RlTickStep
    /\ cache' = Purge(cache, now')
    /\ rlLast' = NoLast
    /\ UNCHANGED <<rlProc, rlStarted, rlSeen, rlAdmitted, rlRejWin>>
    /\ UNCHANGED rlFrame

\* the Redis server goes away or comes back
CacheFlip ==
    /\ cacheUp' = ~cacheUp
    /\ UNCHANGED <<now, cache, storeUp, rlVars, bfVars, otpVars, ssVars>>

Buckets == 0 .. ((MaxTime + RlTickStep) \div MinuteWindow)

RlInit ==
    /\ rlProc = [p \in Procs |-> RlIdle]
    /\ rlStarted = 0
    /\ rlSeen = [k \in Clients \X Endpoints |-> [b \in Buckets |-> 0]]
    /\ rlAdmitted = [k \in Clients \X Endpoints |-> [b \in Buckets |-> 0]]
    /\ rlRejWin = [k \in Clients \X Endpoints |-> {}]
    /\ rlLast = NoLast

----------------------------------------------------------------------------
(* BruteForceProtection *)

max_failed_attempts == 5
lockout_duration == 15 * 60
MaxLockout == 3600

BfPairs == Clients \X {LoginPath}

\* the clients and the pairs of the specifications that look at several pairs at once
BfClients == {"c1", "c2"}
BfAllPairs == BfClients \X Endpoints

FailedKeyPerClient(id, ep) == <<"failed_attempts", id>>

FailedKey(id, ep) == <<"failed_attempts", ep, id>>
LockoutKey(id, ep) == <<"lockout", ep, id>>

Min(a, b) == IF a <= b THEN a ELSE b

ProgressiveUncapped(attempts) ==
    IF attempts >= max_failed_attempts
    THEN 4 * lockout_duration * 2 ^ (attempts - max_failed_attempts)
    ELSE (4 * lockout_duration) \div 2 ^ (max_failed_attempts - attempts)

ProgressiveStuck(attempts) ==
    IF attempts >= max_failed_attempts
    THEN Min(4 * lockout_duration * 2 ^ (attempts - max_failed_attempts - 1), 4 * MaxLockout)
    ELSE Min((4 * lockout_duration) \div 2 ^ (max_failed_attempts - attempts), 4 * MaxLockout)

\* min(self.lockout_duration * (2 ** (attempts - self.max_failed_attempts)), 3600), in
\* quarter seconds: 2 ** k is a fraction for k < 0 (56.25 s at the first failure)
ProgressiveDurationQ(attempts) ==
    IF attempts >= max_failed_attempts
    THEN Min(4 * lockout_duration * 2 ^ (attempts - max_failed_attempts), 4 * MaxLockout)
    ELSE Min((4 * lockout_duration) \div 2 ^ (max_failed_attempts - attempts), 4 * MaxLockout)

BfIdle == [pc |-> "idle", id |-> "c1", ep |-> LoginPath, attempts |-> 0,
           found |-> FALSE, until |-> 0]

NoLock == [set |-> FALSE, until |-> 0, d |-> 0, n |-> 0, prevN |-> 0, prevD |-> 0]
\* valid: is_locked_out returned (locked, remaining) for (id, ep); error: a cache call of
\* the call op failed, and the call ended as `ended` says
NoRes == [valid |-> FALSE, id |-> "c1", ep |-> LoginPath, locked |-> FALSE, remaining |-> 0,
          op |-> "none", error |-> FALSE, ended |-> "none"]

NoResults == [p \in Procs |-> NoRes]
NotFresh == [k \in BfAllPairs |-> FALSE]

OnLockCheckErrorLocked == [locked |-> TRUE, remaining |-> 0]

\* is_locked_out's except Exception: log and return False, 0
OnLockCheckError == [locked |-> FALSE, remaining |-> 0]

\* record_failed_attempt's and clear_failed_attempts' except Exception: log, fall off the
\* end of the function
OnBookkeepingError == "returned"

\* a cache call of is_locked_out raised
LockCheckFailed(id, ep) ==
    [NoRes EXCEPT !.valid = TRUE, !.id = id, !.ep = ep,
                  !.locked = OnLockCheckError.locked, !.remaining = OnLockCheckError.remaining,
                  !.op = "is_locked_out", !.error = TRUE, !.ended = "returned"]

\* a cache call of record_failed_attempt or clear_failed_attempts raised
BookkeepingFailed(op, id, ep) ==
    [NoRes EXCEPT !.id = id, !.ep = ep, !.op = op, !.error = TRUE,
                  !.ended = OnBookkeepingError]

\* record_failed_attempt: GET the failure counter
BfRecGet(p, id, ep) ==
    /\ bfProc[p].pc = "idle"
    /\ bfCalls < MaxBfCalls
    /\ bfCalls' = bfCalls + 1
    /\ IF cacheUp
       THEN /\ bfProc' = [bfProc EXCEPT ![p] =
                   [BfIdle EXCEPT !.pc = "setex_attempts", !.id = id, !.ep = ep,
                                  !.attempts = GetInt(cache, FailedKey(id, ep), now) + 1]]
            /\ bfLock' = [bfLock EXCEPT ![<<id, ep>>].set = FALSE]
            /\ bfRes' = NoResults
       ELSE /\ bfRes' = [NoResults EXCEPT ![p] =
                   BookkeepingFailed("record_failed_attempt", id, ep)]
            /\ UNCHANGED <<bfProc, bfLock>>
    /\ UNCHANGED <<now, cache, bfStreak, bfFresh>>
    /\ UNCHANGED bfFrame

\* a later cache call of record_failed_attempt or clear_failed_attempts raised
BfBookkeepingFails(p, op) ==
    /\ bfProc' = [bfProc EXCEPT ![p] = BfIdle]
    /\ bfRes' = [bfRes EXCEPT ![p] = BookkeepingFailed(op, bfProc[p].id, bfProc[p].ep)]
    /\ UNCHANGED <<now, cache, bfCalls, bfStreak, bfFresh, bfLock>>
    /\ UNCHANGED bfFrame

\* SETEX the counter with the progressive duration; below the threshold the call ends here
BfRecSetexAttempts(p) ==
    LET r == bfProc[p]
        k == <<r.id, r.ep>>
        done == r.attempts < max_failed_attempts
    IN  /\ r.pc = "setex_attempts"
        /\ IF cacheUp
           THEN /\ cache' = Setex(cache, FailedKey(r.id, r.ep),
                                  ProgressiveDurationQ(r.attempts), r.attempts, now)
                /\ bfProc' = [bfProc EXCEPT ![p] =
                       IF done THEN BfIdle ELSE [r EXCEPT !.pc = "setex_lockout"]]
                /\ bfStreak' = IF done THEN [bfStreak EXCEPT ![k] = @ + 1] ELSE bfStreak
                /\ bfFresh' = IF done THEN [bfFresh EXCEPT ![k] = TRUE] ELSE bfFresh
                /\ UNCHANGED <<now, bfCalls, bfLock, bfRes>>
                /\ UNCHANGED bfFrame
           ELSE BfBookkeepingFails(p, "record_failed_attempt")

\* attempts >= max_failed_attempts: lockout_until = int(time.time()) + lockout_duration,
\* SETEX the lockout key
BfRecSetexLockout(p) ==
    LET r == bfProc[p]
        k == <<r.id, r.ep>>
        d == ProgressiveDurationQ(r.attempts) \div 4
    IN  /\ r.pc = "setex_lockout"
        /\ IF cacheUp
           THEN /\ cache' = Setex(cache, LockoutKey(r.id, r.ep),
                                  ProgressiveDurationQ(r.attempts), now + d, now)
                /\ bfProc' = [bfProc EXCEPT ![p] = BfIdle]
                /\ bfStreak' = [bfStreak EXCEPT ![k] = @ + 1]
                /\ bfFresh' = [bfFresh EXCEPT ![k] = TRUE]
                /\ bfLock' = [bfLock EXCEPT ![k] =
                       [set |-> TRUE, until |-> now + d, d |-> d, n |-> r.attempts,
                        prevN |-> bfLock[k].n, prevD |-> bfLock[k].d]]
                /\ UNCHANGED <<now, bfCalls, bfRes>>
                /\ UNCHANGED bfFrame
           ELSE BfBookkeepingFails(p, "record_failed_attempt")

\* is_locked_out: GET the lockout key
BfLockGet(p, id, ep) ==
    /\ bfProc[p].pc = "idle"
    /\ IF cacheUp
       THEN /\ bfProc' = [bfProc EXCEPT ![p] =
                   [BfIdle EXCEPT !.pc = "compare", !.id = id, !.ep = ep,
                                  !.found = Has(cache, LockoutKey(id, ep), now),
                                  !.until = GetInt(cache, LockoutKey(id, ep), now)]]
            /\ bfRes' = [bfRes EXCEPT ![p] = NoRes]
       ELSE /\ bfRes' = [bfRes EXCEPT ![p] = LockCheckFailed(id, ep)]
            /\ UNCHANGED bfProc
    /\ UNCHANGED <<now, cache, bfCalls, bfStreak, bfFresh, bfLock>>
    /\ UNCHANGED bfFrame

\* a later cache call of is_locked_out raised
BfLockCheckFails(p) ==
    /\ bfProc' = [bfProc EXCEPT ![p] = BfIdle]
    /\ bfRes' = [bfRes EXCEPT ![p] = LockCheckFailed(bfProc[p].id, bfProc[p].ep)]
    /\ UNCHANGED <<now, cache, bfCalls, bfStreak, bfFresh, bfLock>>
    /\ UNCHANGED bfFrame

\* what is_locked_out returns once it has the stored value, unless it has to clean up
LockedOutLate(found, until, current_time) ==
    IF ~found THEN [locked |-> FALSE, remaining |-> 0, cleanup |-> FALSE]
    ELSE IF current_time <= until
         THEN [locked |-> TRUE, remaining |-> until - current_time, cleanup |-> FALSE]
         ELSE [locked |-> FALSE, remaining |-> 0, cleanup |-> TRUE]

LockedOut(found, until, current_time) ==
    IF ~found THEN [locked |-> FALSE, remaining |-> 0, cleanup |-> FALSE]
    ELSE IF current_time < until
         THEN [locked |-> TRUE, remaining |-> until - current_time, cleanup |-> FALSE]
         ELSE [locked |-> FALSE, remaining |-> 0, cleanup |-> TRUE]

\* read current_time and compare; an expired lockout is deleted
BfLockCompare(p) ==
    LET r == bfProc[p]
        v == LockedOut(r.found, r.until, now)
    IN  /\ r.pc = "compare"
        /\ IF v.cleanup /\ ~cacheUp
           THEN BfLockCheckFails(p)
           ELSE /\ cache' = IF v.cleanup THEN Delete(cache, LockoutKey(r.id, r.ep))
                                         ELSE cache
                /\ bfProc' = [bfProc EXCEPT ![p] =
                       IF v.cleanup THEN [r EXCEPT !.pc = "delete_failed"] ELSE BfIdle]
                /\ bfRes' = [bfRes EXCEPT ![p] =
                       [NoRes EXCEPT !.valid = TRUE, !.id = r.id, !.ep = r.ep,
                                     !.locked = v.locked, !.remaining = v.remaining,
                                     !.op = "is_locked_out", !.ended = "returned"]]
                /\ UNCHANGED <<now, bfCalls, bfStreak, bfFresh, bfLock>>
                /\ UNCHANGED bfFrame

\* the cleanup also deletes the failure counter, then returns (False, 0)
BfLockDeleteFailed(p) ==
    LET r == bfProc[p]
    IN  /\ r.pc = "delete_failed"
        /\ IF cacheUp
           THEN /\ cache' = Delete(cache, FailedKey(r.id, r.ep))
                /\ bfProc' = [bfProc EXCEPT ![p] = BfIdle]
                /\ bfStreak' = [bfStreak EXCEPT ![<<r.id, r.ep>>] = 0]
                /\ bfFresh' = NotFresh
                /\ UNCHANGED <<now, bfCalls, bfLock, bfRes>>
                /\ UNCHANGED bfFrame
           ELSE BfLockCheckFails(p)

\* clear_failed_attempts: DELETE the failure counter
BfClearFailed(p, id, ep) ==
    /\ bfProc[p].pc = "idle"
    /\ IF cacheUp
       THEN /\ cache' = Delete(cache, FailedKey(id, ep))
            /\ bfProc' = [bfProc EXCEPT ![p] =
                   [BfIdle EXCEPT !.pc = "clear_lockout", !.id = id, !.ep = ep]]
            /\ bfLock' = [bfLock EXCEPT ![<<id, ep>>].set = FALSE]
            /\ bfRes' = NoResults
       ELSE /\ bfRes' = [NoResults EXCEPT ![p] =
                   BookkeepingFailed("clear_failed_attempts", id, ep)]
            /\ UNCHANGED <<cache, bfProc, bfLock>>
    /\ UNCHANGED <<now, bfCalls, bfStreak, bfFresh>>
    /\ UNCHANGED bfFrame

\* DELETE the lockout key
BfClearLockout(p) ==
    LET r == bfProc[p]
    IN  /\ r.pc = "clear_lockout"
        /\ IF cacheUp
           THEN /\ cache' = Delete(cache, LockoutKey(r.id, r.ep))
                /\ bfProc' = [bfProc EXCEPT ![p] = BfIdle]
                /\ bfStreak' = [bfStreak EXCEPT ![<<r.id, r.ep>>] = 0]
                /\ bfFresh' = NotFresh
                /\ UNCHANGED <<now, bfCalls, bfLock, bfRes>>
                /\ UNCHANGED bfFrame
           ELSE BfBookkeepingFails(p, "clear_failed_attempts")

BfStep(p) ==
    \/ BfRecSetexAttempts(p)
    \/ BfRecSetexLockout(p)
    \/ BfLockCompare(p)
    \/ BfLockDeleteFailed(p)
    \/ BfClearLockout(p)

\* time passes
BfTick ==
    /\ now + BfTickStep <= MaxBfTime
    /\ now' = now + BfTickStep
    /\ cache' = Purge(cache, now')
    /\ bfFresh' = NotFresh
    /\ bfRes' = NoResults
    /\ UNCHANGED <<bfProc, bfCalls, bfStreak, bfLock>>
    /\ UNCHANGED bfFrame

BfInit ==
    /\ bfProc = [p \in Procs |-> BfIdle]
    /\ bfCalls = 0
    /\ bfStreak = [k \in BfAllPairs |-> 0]
    /\ bfFresh = NotFresh
    /\ bfLock = [k \in BfAllPairs |-> NoLock]
    /\ bfRes = [p \in Procs |-> NoRes]

----------------------------------------------------------------------------
(* AuthService: send_otp and verify_otp *)

otp_rate_limit == 5
auth_lockout_duration == 15 * 60
otp_expiry == 5 * 60
max_otp_attempts == 3
QuotaTtl == 3600
SessionCacheTtl == 24 * 3600
AccessLifetime == 3600
SessionLifetime == 30 * 24 * 3600

Identifiers == {"+919876543210"}
Codes == {"123456", "654321"}
Tokens == 1 .. MaxOtps

TokenKeyShared(token) == <<"otp_token", 0>>

TokenKey(token) == <<"otp_token", token>>
QuotaKey(identifier) == <<"rate_limit:otp", identifier>>
AuthLockoutKey(identifier) == <<"lockout", identifier>>
SessionKey(access_token) == <<"vendor_session", access_token>>

\* pwd_context.hash / pwd_context.verify: a one-way hash that only its own input matches
Hash(otp) == <<"bcrypt", otp>>
VerifyPlain(otp, otp_hash) == otp_hash = otp

Verify(otp, otp_hash) == otp_hash = Hash(otp)

\* jwt.encode of the payload {sub, type, iat, exp}: equal payloads give equal tokens
Jwt(vendor_id, type, iat, lifetime) ==
    [sub |-> vendor_id, type |-> type, iat |-> iat, exp |-> iat + lifetime,
     sig |-> "HS256:JWT_SECRET"]

\* checked: the quota count the call read first; lockout_time: the lockout it read
SoIdle == [pc |-> "idle", identifier |-> "+919876543210", otp |-> "123456",
           otp_id |-> 0, count |-> 0, checked |-> 0, lockout_time |-> 0]

NoJwt == Jwt(0, "none", 0, 0)

VoIdle == [pc |-> "idle", token |-> 1, otp |-> "123456", found |-> FALSE, otp_id |-> 0,
           attempts |-> 0, identifier |-> "+919876543210", vendor_id |-> 0,
           access_token |-> NoJwt, refresh_token |-> NoJwt,
           after |-> FALSE, unexpired |-> FALSE]

OtpIdle(p) == soProc[p].pc = "idle" /\ voProc[p].pc = "idle" /\ ssProc[p].pc = "idle"

\* send_otp: the identifier is valid and normalized; _check_rate_limit(identifier, "otp")
\* GETs the quota counter; under the limit the call goes on and draws the code
SoCheck(p, identifier, otp) ==
    LET current_count == GetInt(cache, QuotaKey(identifier), now)
    IN  /\ OtpIdle(p)
        /\ soCalls < MaxOtps
        /\ soCalls' = soCalls + 1
        /\ soProc' = [soProc EXCEPT ![p] =
               [SoIdle EXCEPT !.pc = IF current_count >= otp_rate_limit
                                     THEN "lockout_get" ELSE "insert",
                              !.identifier = identifier, !.otp = otp,
                              !.checked = current_count]]
        /\ UNCHANGED <<now, cache, otps, vendors, sessions, voProc, voCalls, voLog>>
        /\ UNCHANGED otpFrame

\* current_count >= limit: GET the lockout key
SoLockoutGet(p) ==
    LET r == soProc[p]
        found == Has(cache, AuthLockoutKey(r.identifier), now)
    IN  /\ r.pc = "lockout_get"
        /\ soProc' = [soProc EXCEPT ![p] =
               IF found
               THEN [r EXCEPT !.pc = "lockout_compare",
                              !.lockout_time = cache[AuthLockoutKey(r.identifier)].val]
               ELSE [r EXCEPT !.pc = "lockout_setex"]]
        /\ UNCHANGED <<now, cache, otps, vendors, sessions, soCalls, voProc, voCalls, voLog>>
        /\ UNCHANGED otpFrame

\* remaining_time = int(lockout_time) - int(datetime.now().timestamp())
SoRemainingTime(lockout_time, t) == lockout_time - t

\* a lockout was found: with time remaining the call is refused; otherwise the lockout has
\* expired and the counters are reset, the quota counter first
SoLockoutCompare(p) ==
    LET r == soProc[p]
        refused == SoRemainingTime(r.lockout_time, now) > 0
    IN  /\ r.pc = "lockout_compare"
        /\ cache' = IF refused THEN cache ELSE Delete(cache, QuotaKey(r.identifier))
        /\ soProc' = [soProc EXCEPT ![p] =
               IF refused THEN SoIdle ELSE [r EXCEPT !.pc = "lockout_delete"]]
        /\ UNCHANGED <<now, otps, vendors, sessions, soCalls, voProc, voCalls, voLog>>
        /\ UNCHANGED otpFrame

\* ... then the lockout key; the check returns True and send_otp goes on
SoLockoutDelete(p) ==
    LET r == soProc[p]
    IN  /\ r.pc = "lockout_delete"
        /\ cache' = Delete(cache, AuthLockoutKey(r.identifier))
        /\ soProc' = [soProc EXCEPT ![p] = [r EXCEPT !.pc = "insert"]]
        /\ UNCHANGED <<now, otps, vendors, sessions, soCalls, voProc, voCalls, voLog>>
        /\ UNCHANGED otpFrame

\* no lockout was found: SETEX one for lockout_duration; the call is refused
SoLockoutSetex(p) ==
    LET r == soProc[p]
    IN  /\ r.pc = "lockout_setex"
        /\ cache' = Setex(cache, AuthLockoutKey(r.identifier), 4 * auth_lockout_duration,
                          now + auth_lockout_duration, now)
        /\ soProc' = [soProc EXCEPT ![p] = SoIdle]
        /\ UNCHANGED <<now, otps, vendors, sessions, soCalls, voProc, voCalls, voLog>>
        /\ UNCHANGED otpFrame

\* the steps of _check_rate_limit once the quota is used up
SoQuotaStep(p) ==
    \/ SoLockoutGet(p)
    \/ SoLockoutCompare(p)
    \/ SoLockoutDelete(p)
    \/ SoLockoutSetex(p)

\* _store_otp: insert the row with the hashed code
SoInsert(p) ==
    LET r == soProc[p]
    IN  /\ r.pc = "insert"
        /\ otps' = Append(otps, [phone_or_email |-> r.identifier, otp_code |-> Hash(r.otp),
                                 attempts |-> 0, verified |-> FALSE,
                                 expires_at |-> now + otp_expiry])
        /\ soProc' = [soProc EXCEPT ![p] = [r EXCEPT !.pc = "setex_token", !.otp_id = Len(otps) + 1]]
        /\ UNCHANGED <<now, cache, vendors, sessions, soCalls, voProc, voCalls, voLog>>
        /\ UNCHANGED otpFrame

\* _store_otp: map a fresh token to the row id (the n-th token issued is written n)
SoSetexToken(p) ==
    LET r == soProc[p]
    IN  /\ r.pc = "setex_token"
        /\ cache' = Setex(cache, TokenKey(r.otp_id), 4 * otp_expiry, r.otp_id, now)
        /\ soProc' = [soProc EXCEPT ![p] = [r EXCEPT !.pc = "quota_get"]]
        /\ UNCHANGED <<now, otps, vendors, sessions, soCalls, voProc, voCalls, voLog>>
        /\ UNCHANGED otpFrame

\* the notification is sent; _increment_rate_limit: GET the quota counter
SoQuotaGet(p) ==
    LET r == soProc[p]
    IN  /\ r.pc = "quota_get"
        /\ soProc' = [soProc EXCEPT ![p] =
               [r EXCEPT !.pc = "quota_setex", !.count = GetInt(cache, QuotaKey(r.identifier), now)]]
        /\ UNCHANGED <<now, cache, otps, vendors, sessions, soCalls, voProc, voCalls, voLog>>
        /\ UNCHANGED otpFrame

\* _increment_rate_limit: SETEX the counter + 1 for an hour; send_otp returns the token
SoQuotaSetex(p) ==
    LET r == soProc[p]
    IN  /\ r.pc = "quota_setex"
        /\ cache' = Setex(cache, QuotaKey(r.identifier), 4 * QuotaTtl, r.count + 1, now)
        /\ soProc' = [soProc EXCEPT ![p] = SoIdle]
        /\ UNCHANGED <<now, otps, vendors, sessions, soCalls, voProc, voCalls, voLog>>
        /\ UNCHANGED otpFrame

SoStep(p) == SoInsert(p) \/ SoSetexToken(p) \/ SoQuotaGet(p) \/ SoQuotaSetex(p)

\* the call's entry in the history
Returned(r, res, remaining) ==
    [token |-> r.token,
     correct |-> r.token <= Len(otps) /\ otps[r.token].otp_code = Hash(r.otp),
     res |-> res, remaining |-> remaining, found |-> r.found,
     unexpired |-> r.unexpired, after |-> r.after]

\* verify_otp's except Exception: log, and raise an Exception with the same message;
\* nothing that was written before is undone
OnVerifyError == "Failed"

\* a cache or datastore call of verify_otp raises: the call ends there
VoFails(p) ==
    /\ voProc' = [voProc EXCEPT ![p] = VoIdle]
    /\ voLog' = Append(voLog, Returned(voProc[p], OnVerifyError, 0))
    /\ UNCHANGED <<now, cache, otps, vendors, sessions, soProc, soCalls, voCalls>>
    /\ UNCHANGED otpFrame

\* verify_otp: GET the token mapping
VoGetToken(p, token, otp) ==
    /\ OtpIdle(p)
    /\ voCalls < MaxVerifies
    /\ voCalls' = voCalls + 1
    /\ IF cacheUp
       THEN /\ voProc' = [voProc EXCEPT ![p] =
                   [VoIdle EXCEPT !.pc = "select", !.token = token, !.otp = otp,
                                  !.found = Has(cache, TokenKey(token), now),
                                  !.otp_id = GetInt(cache, TokenKey(token), now),
                                  !.after = \E i \in 1 .. Len(voLog) :
                                                voLog[i].token = token /\ voLog[i].res = "OK"]]
            /\ UNCHANGED voLog
       ELSE /\ voLog' = Append(voLog, Returned([VoIdle EXCEPT !.token = token, !.otp = otp],
                                               OnVerifyError, 0))
            /\ UNCHANGED voProc
    /\ UNCHANGED <<now, cache, otps, vendors, sessions, soProc, soCalls>>
    /\ UNCHANGED otpFrame

\* what the checks on the row just read raise, "" when they pass
RowCheckLate(row, t) ==
    IF t > row.expires_at THEN "Expired"
    ELSE IF row.verified THEN "AlreadyUsed"
    ELSE IF row.attempts > max_otp_attempts THEN "AttemptsExhausted"
    ELSE ""

RowCheckUsedFirst(row, t) ==
    IF row.verified THEN "AlreadyUsed"
    ELSE IF t > row.expires_at THEN "Expired"
    ELSE IF row.attempts >= max_otp_attempts THEN "AttemptsExhausted"
    ELSE ""

RowCheck(row, t) ==
    IF t > row.expires_at THEN "Expired"
    ELSE IF row.verified THEN "AlreadyUsed"
    ELSE IF row.attempts >= max_otp_attempts THEN "AttemptsExhausted"
    ELSE ""

\* no mapping: "Invalid or expired verification token"; else select the row and check
\* expiry, verified and attempts on it
VoSelect(p) ==
    LET r == voProc[p]
        has_row == r.found /\ r.otp_id \in 1 .. Len(otps)
        err == IF ~r.found THEN "TokenInvalid"
               ELSE IF ~has_row THEN "NotFound"
               ELSE RowCheck(otps[r.otp_id], now)
        r2 == [r EXCEPT !.unexpired = r.token <= Len(otps) /\ now <= otps[r.token].expires_at]
    IN  /\ r.pc = "select"
        /\ IF storeUp \/ ~r.found
           THEN /\ voProc' = [voProc EXCEPT ![p] =
                       IF err = ""
                       THEN [r2 EXCEPT !.pc = "update", !.attempts = otps[r.otp_id].attempts,
                                       !.identifier = otps[r.otp_id].phone_or_email]
                       ELSE VoIdle]
                /\ voLog' = IF err = "" THEN voLog ELSE Append(voLog, Returned(r2, err, 0))
                /\ UNCHANGED <<now, cache, otps, vendors, sessions, soProc, soCalls, voCalls>>
                /\ UNCHANGED otpFrame
           ELSE VoFails(p)

\* the row after the update verify_otp issues, from the attempts value it read
RowUpdateKeepAttempts(row, matched, attempts) ==
    IF matched
    THEN [row EXCEPT !.verified = TRUE, !.attempts = attempts + 1]
    ELSE [row EXCEPT !.attempts = attempts]

RowUpdate(row, matched, attempts) ==
    IF matched
    THEN [row EXCEPT !.verified = TRUE, !.attempts = attempts + 1]
    ELSE [row EXCEPT !.attempts = attempts + 1]

\* compare the code with the stored hash and update the row by id: a mismatch raises
\* "Invalid OTP. n attempts remaining", a match marks the row verified
VoUpdate(p) ==
    LET r == voProc[p]
        matched == Verify(r.otp, otps[r.otp_id].otp_code)
    IN  /\ r.pc = "update"
        /\ IF storeUp
           THEN /\ otps' = [otps EXCEPT ![r.otp_id] = RowUpdate(@, matched, r.attempts)]
                /\ voProc' = [voProc EXCEPT ![p] =
                       IF matched THEN [r EXCEPT !.pc = "vendor_select"] ELSE VoIdle]
                /\ voLog' = IF matched THEN voLog
                            ELSE Append(voLog, Returned(r, "InvalidCode",
                                                        max_otp_attempts - (r.attempts + 1)))
                /\ UNCHANGED <<now, cache, vendors, sessions, soProc, soCalls, voCalls>>
                /\ UNCHANGED otpFrame
           ELSE VoFails(p)

VendorOf(identifier) ==
    IF \E i \in 1 .. Len(vendors) : vendors[i].phone_number = identifier
    THEN CHOOSE i \in 1 .. Len(vendors) :
             /\ vendors[i].phone_number = identifier
             /\ \A j \in 1 .. Len(vendors) : vendors[j].phone_number = identifier => i <= j
    ELSE 0

\* _get_or_create_vendor: select the vendor by identifier
VoVendorSelect(p) ==
    LET r == voProc[p]
    IN  /\ r.pc = "vendor_select"
        /\ IF storeUp
           THEN /\ voProc' = [voProc EXCEPT ![p] =
                       [r EXCEPT !.pc = "vendor_write", !.vendor_id = VendorOf(r.identifier)]]
                /\ UNCHANGED <<now, cache, otps, vendors, sessions, soProc, soCalls, voCalls, voLog>>
                /\ UNCHANGED otpFrame
           ELSE VoFails(p)

\* _get_or_create_vendor: update last_active of the vendor found, or insert a new vendor.
\* The insert is made on the result of the select alone.  When a vendor with the
\* identifier has been inserted in between, the table either takes the second row or,
\* if it has a uniqueness constraint on the column, refuses it and the call raises:
\* the code does not tell which, so both are possible here.
VoVendorWrite(p) ==
    LET r == voProc[p]
    IN  /\ r.pc = "vendor_write"
        /\ IF storeUp
           THEN \/ /\ vendors' = IF r.vendor_id = 0
                                 THEN Append(vendors, [phone_number |-> r.identifier,
                                                       status |-> "active"])
                                 ELSE vendors
                   /\ voProc' = [voProc EXCEPT ![p] =
                          [r EXCEPT !.pc = "session_insert",
                                    !.vendor_id = IF r.vendor_id = 0 THEN Len(vendors) + 1
                                                  ELSE r.vendor_id]]
                   /\ UNCHANGED <<now, cache, otps, sessions, soProc, soCalls, voCalls, voLog>>
                   /\ UNCHANGED otpFrame
                \/ /\ r.vendor_id = 0
                   /\ VendorOf(r.identifier) # 0
                   /\ VoFails(p)
           ELSE VoFails(p)

\* _generate_jwt_tokens, then _create_vendor_session: insert the session row
VoSessionInsert(p) ==
    LET r == voProc[p]
        access_token == Jwt(r.vendor_id, "access", now, AccessLifetime)
        refresh_token == Jwt(r.vendor_id, "refresh", now, SessionLifetime)
    IN  /\ r.pc = "session_insert"
        /\ IF storeUp
           THEN /\ sessions' = Append(sessions, [vendor_id |-> r.vendor_id,
                                                 session_token |-> access_token,
                                                 refresh_token |-> refresh_token,
                                                 expires_at |-> now + SessionLifetime])
                /\ voProc' = [voProc EXCEPT ![p] =
                       [r EXCEPT !.pc = "session_cache", !.access_token = access_token,
                                 !.refresh_token = refresh_token]]
                /\ UNCHANGED <<now, cache, otps, vendors, soProc, soCalls, voCalls, voLog>>
                /\ UNCHANGED otpFrame
           ELSE VoFails(p)

\* _create_vendor_session: cache the session under the access token for 24 hours
VoSessionCache(p) ==
    LET r == voProc[p]
    IN  /\ r.pc = "session_cache"
        /\ IF cacheUp
           THEN /\ cache' = Setex(cache, SessionKey(r.access_token), 4 * SessionCacheTtl,
                                  [vendor_id |-> r.vendor_id,
                                   expires_at |-> sessions[Len(sessions)].expires_at], now)
                /\ voProc' = [voProc EXCEPT ![p] = [r EXCEPT !.pc = "delete_token"]]
                /\ UNCHANGED <<now, otps, vendors, sessions, soProc, soCalls, voCalls, voLog>>
                /\ UNCHANGED otpFrame
           ELSE VoFails(p)

\* delete the token mapping and return the AuthResponse
VoDeleteToken(p) ==
    LET r == voProc[p]
    IN  /\ r.pc = "delete_token"
        /\ IF cacheUp
           THEN /\ cache' = Delete(cache, TokenKey(r.token))
                /\ voProc' = [voProc EXCEPT ![p] = VoIdle]
                /\ voLog' = Append(voLog, Returned(r, "OK", 0))
                /\ UNCHANGED <<now, otps, vendors, sessions, soProc, soCalls, voCalls>>
                /\ UNCHANGED otpFrame
           ELSE VoFails(p)

VoStep(p) ==
    \/ VoSelect(p)
    \/ VoUpdate(p)
    \/ VoVendorSelect(p)
    \/ VoVendorWrite(p)
    \/ VoSessionInsert(p)
    \/ VoSessionCache(p)
    \/ VoDeleteToken(p)

\* time passes
OtpTick ==
    /\ now + OtpTickStep <= MaxOtpTime
    /\ now' = now + OtpTickStep
    /\ cache' = Purge(cache, now')
    /\ UNCHANGED otpVars
    /\ UNCHANGED otpFrame

OtpInit ==
    /\ otps = <<>>
    /\ vendors = <<>>
    /\ sessions = <<>>
    /\ soProc = [p \in Procs |-> SoIdle]
    /\ soCalls = 0
    /\ voProc = [p \in Procs |-> VoIdle]
    /\ voCalls = 0
    /\ voLog = <<>>

----------------------------------------------------------------------------
(* AuthService: validate_session, refresh_token and logout *)

\* the row id of a deleted session
NoRow == [vendor_id |-> 0, session_token |-> NoJwt, refresh_token |-> NoJwt, expires_at |-> 0]

\* a token signed with another key
Forged == [Jwt(1, "access", 0, AccessLifetime) EXCEPT !.sig = "HS256:other"]

\* jwt.decode: the signature is the server's and exp has not passed
Decodes(token, t) == token.sig = "HS256:JWT_SECRET" /\ t <= token.exp

\* the instants at which the session calls are made: at login, within and after the
\* access token's hour, after the cache entry's day, half an hour before and a quarter
\* of an hour after the session's 30 days
SessInstants == {0, 1800, 2 * 3600, 25 * 3600, SessionLifetime - 1800, SessionLifetime + 900}

\* the tokens a client can present: those it was given or has presented, and a forged one
KnownTokens ==
    ({sessions[i].session_token : i \in 1 .. Len(sessions)}
        \cup {sessions[i].refresh_token : i \in 1 .. Len(sessions)}
        \cup {k[2] : k \in {x \in DOMAIN cache : x[1] = "vendor_session"}}
        \cup {ssLast.token, ssLast.out, ssPrev.token, ssPrev.out, Forged})
    \ {NoJwt}

SsIdle == [pc |-> "idle", op |-> "none", token |-> NoJwt, id |-> 0, vendor_id |-> 0,
           access_token |-> NoJwt, expires_at |-> 0]

\* res: "ok" (a session, a new access token, logged out), "denied" (None) or "raised"
\* error: a cache or datastore call of it failed
NoCall == [op |-> "none", token |-> NoJwt, res |-> "none", vendor_id |-> 0,
           out |-> NoJwt, at |-> 0, error |-> FALSE]

\* the ids of the rows that .eq(column, token) selects, lowest first
RowsByRefreshToken(token) == {i \in 1 .. Len(sessions) : sessions[i].refresh_token = token}

RowsByWrongColumn(token) == {i \in 1 .. Len(sessions) : sessions[i].refresh_token = token}

RowsBySessionToken(token) == {i \in 1 .. Len(sessions) : sessions[i].session_token = token}

First(ids) == CHOOSE i \in ids : \A j \in ids : i <= j

\* the call returns (or raises): the process is free, the history moves on
SsEnd(p, res, vendor_id, out, error) ==
    /\ ssProc' = [ssProc EXCEPT ![p] = SsIdle]
    /\ ssPrev' = ssLast
    /\ ssLast' = [op |-> ssProc[p].op, token |-> ssProc[p].token, res |-> res,
                  vendor_id |-> vendor_id, out |-> out, at |-> now, error |-> error]

SsReturn(p, res, vendor_id, out) == SsEnd(p, res, vendor_id, out, FALSE)
SsFail(p, res) == SsEnd(p, res, 0, NoJwt, TRUE)

\* the first step of a call returns: the same, for the call that is starting
SsEndAtOnce(op, token, res, vendor_id, error) ==
    /\ UNCHANGED ssProc
    /\ ssPrev' = ssLast
    /\ ssLast' = [op |-> op, token |-> token, res |-> res,
                  vendor_id |-> vendor_id, out |-> NoJwt, at |-> now, error |-> error]

SsReturnAtOnce(op, token, res, vendor_id) == SsEndAtOnce(op, token, res, vendor_id, FALSE)
SsFailAtOnce(op, token, res) == SsEndAtOnce(op, token, res, 0, TRUE)

OnValidateErrorRaise == "raised"

\* validate_session's except Exception: log and return None
OnValidateError == "denied"

\* the cache holds the session under the token and its expires_at has not passed
CachedSessionValid(c, token, t) ==
    Has(c, SessionKey(token), t) /\ t <= c[SessionKey(token)].val.expires_at

AccessTypeAny(token) == TRUE

\* payload.get("type") == "access"
AccessType(token) == token.type = "access"

\* validate_session: GET the cached session; on a miss decode the token
VsGet(p, token) ==
    /\ OtpIdle(p)
    /\ ssCalls < MaxSessOps
    /\ token \in KnownTokens
    /\ ssCalls' = ssCalls + 1
    /\ IF ~cacheUp
       THEN SsFailAtOnce("validate", token, OnValidateError)
       ELSE IF CachedSessionValid(cache, token, now)
       THEN SsReturnAtOnce("validate", token, "ok", cache[SessionKey(token)].val.vendor_id)
       ELSE IF ~Decodes(token, now) \/ ~AccessType(token)
       THEN SsReturnAtOnce("validate", token, "denied", 0)
       ELSE /\ ssProc' = [ssProc EXCEPT ![p] =
                   [SsIdle EXCEPT !.pc = "vs_select", !.op = "validate", !.token = token,
                                  !.vendor_id = token.sub]]
            /\ UNCHANGED <<ssLast, ssPrev>>
    /\ UNCHANGED <<now, cache, sessions>>
    /\ UNCHANGED ssFrame

\* select the row by session_token; none: None; expired: clean up; else refresh last_used
VsSelect(p) ==
    LET r == ssProc[p]
        ids == RowsBySessionToken(r.token)
    IN  /\ r.pc = "vs_select"
        /\ IF ~storeUp THEN SsFail(p, OnValidateError)
           ELSE IF ids = {} THEN SsReturn(p, "denied", 0, NoJwt)
           ELSE /\ ssProc' = [ssProc EXCEPT ![p] =
                       [r EXCEPT !.pc = IF now > sessions[First(ids)].expires_at
                                        THEN "vs_delete_row" ELSE "vs_touch",
                                 !.id = First(ids),
                                 !.expires_at = sessions[First(ids)].expires_at]]
                /\ UNCHANGED <<ssLast, ssPrev>>
        /\ UNCHANGED <<now, cache, sessions, ssCalls>>
        /\ UNCHANGED ssFrame

\* the row has expired: delete it by id
VsDeleteRow(p) ==
    LET r == ssProc[p]
    IN  /\ r.pc = "vs_delete_row"
        /\ IF ~storeUp
           THEN SsFail(p, OnValidateError) /\ UNCHANGED sessions
           ELSE /\ sessions' = [sessions EXCEPT ![r.id] = NoRow]
                /\ ssProc' = [ssProc EXCEPT ![p] = [r EXCEPT !.pc = "vs_delete_cache"]]
                /\ UNCHANGED <<ssLast, ssPrev>>
        /\ UNCHANGED <<now, cache, ssCalls>>
        /\ UNCHANGED ssFrame

\* ... and DELETE its cache entry; return None
VsDeleteCache(p) ==
    LET r == ssProc[p]
    IN  /\ r.pc = "vs_delete_cache"
        /\ IF ~cacheUp
           THEN SsFail(p, OnValidateError) /\ UNCHANGED cache
           ELSE /\ cache' = Delete(cache, SessionKey(r.token))
                /\ SsReturn(p, "denied", 0, NoJwt)
        /\ UNCHANGED <<now, sessions, ssCalls>>
        /\ UNCHANGED ssFrame

\* update last_used by id and return the vendor id and expiry
VsTouch(p) ==
    LET r == ssProc[p]
    IN  /\ r.pc = "vs_touch"
        /\ IF ~storeUp THEN SsFail(p, OnValidateError)
           ELSE SsReturn(p, "ok", r.vendor_id, NoJwt)
        /\ UNCHANGED <<now, cache, sessions, ssCalls>>
        /\ UNCHANGED ssFrame

\* payload.get("type") == "refresh"
RefreshType(token) == token.type = "refresh"

\* refresh_token: decode, select the row by refresh_token; an expired row is deleted;
\* every failure is raised as an Exception
RtSelect(p, token) ==
    LET ids == RowsByRefreshToken(token)
        row == sessions[First(ids)]
    IN  /\ OtpIdle(p)
        /\ ssCalls < MaxSessOps
        /\ token \in KnownTokens
        /\ ssCalls' = ssCalls + 1
        /\ IF ~Decodes(token, now) \/ ~RefreshType(token)
           THEN SsReturnAtOnce("refresh", token, "raised", 0) /\ UNCHANGED sessions
           ELSE IF ~storeUp
           THEN SsFailAtOnce("refresh", token, "raised") /\ UNCHANGED sessions
           ELSE IF ids = {}
           THEN SsReturnAtOnce("refresh", token, "raised", 0) /\ UNCHANGED sessions
           ELSE IF now > row.expires_at
           THEN /\ sessions' = [sessions EXCEPT ![First(ids)] = NoRow]
                /\ SsReturnAtOnce("refresh", token, "raised", 0)
           ELSE /\ ssProc' = [ssProc EXCEPT ![p] =
                       [SsIdle EXCEPT !.pc = "rt_update", !.op = "refresh", !.token = token,
                                      !.id = First(ids), !.vendor_id = token.sub,
                                      !.expires_at = row.expires_at]]
                /\ UNCHANGED <<sessions, ssLast, ssPrev>>
        /\ UNCHANGED <<now, cache>>
        /\ UNCHANGED ssFrame

RowWithTokensRotated(row, access_token) ==
    IF row = NoRow THEN row
    ELSE [row EXCEPT !.session_token = access_token, !.refresh_token = NoJwt]

\* .update({"session_token": access_token, ...}).eq("id", id): no row, no change
RowWithToken(row, access_token) ==
    IF row = NoRow THEN row ELSE [row EXCEPT !.session_token = access_token]

\* mint the new access token and write it to the row by id
RtUpdate(p) ==
    LET r == ssProc[p]
        access_token == Jwt(r.vendor_id, "access", now, AccessLifetime)
    IN  /\ r.pc = "rt_update"
        /\ IF ~storeUp
           THEN SsFail(p, "raised") /\ UNCHANGED sessions
           ELSE /\ sessions' = [sessions EXCEPT ![r.id] = RowWithToken(@, access_token)]
                /\ ssProc' = [ssProc EXCEPT ![p] =
                       [r EXCEPT !.pc = "rt_cache", !.access_token = access_token]]
                /\ UNCHANGED <<ssLast, ssPrev>>
        /\ UNCHANGED <<now, cache, ssCalls>>
        /\ UNCHANGED ssFrame

\* cache the session under the new access token for 24 hours and return the token
RtCache(p) ==
    LET r == ssProc[p]
    IN  /\ r.pc = "rt_cache"
        /\ IF ~cacheUp
           THEN SsFail(p, "raised") /\ UNCHANGED cache
           ELSE /\ cache' = Setex(cache, SessionKey(r.access_token), 4 * SessionCacheTtl,
                                  [vendor_id |-> r.vendor_id, expires_at |-> r.expires_at], now)
                /\ SsReturn(p, "ok", r.vendor_id, r.access_token)
        /\ UNCHANGED <<now, sessions, ssCalls>>
        /\ UNCHANGED ssFrame

\* logout: delete the rows whose session_token is the token
LoDelete(p, token) ==
    /\ OtpIdle(p)
    /\ ssCalls < MaxSessOps
    /\ token \in KnownTokens
    /\ ssCalls' = ssCalls + 1
    /\ IF ~storeUp
       THEN SsFailAtOnce("logout", token, "raised") /\ UNCHANGED sessions
       ELSE /\ sessions' = [i \in 1 .. Len(sessions) |->
                   IF i \in RowsBySessionToken(token) THEN NoRow ELSE sessions[i]]
            /\ ssProc' = [ssProc EXCEPT ![p] =
                   [SsIdle EXCEPT !.pc = "lo_cache", !.op = "logout", !.token = token]]
            /\ UNCHANGED <<ssLast, ssPrev>>
    /\ UNCHANGED <<now, cache>>
    /\ UNCHANGED ssFrame

\* ... and DELETE the cache entry; return the message
LoCache(p) ==
    LET r == ssProc[p]
    IN  /\ r.pc = "lo_cache"
        /\ IF ~cacheUp
           THEN SsFail(p, "raised") /\ UNCHANGED cache
           ELSE /\ cache' = Delete(cache, SessionKey(r.token))
                /\ SsReturn(p, "ok", 0, NoJwt)
        /\ UNCHANGED <<now, sessions, ssCalls>>
        /\ UNCHANGED ssFrame

SsStep(p) ==
    \/ VsSelect(p)
    \/ VsDeleteRow(p)
    \/ VsDeleteCache(p)
    \/ VsTouch(p)
    \/ RtUpdate(p)
    \/ RtCache(p)
    \/ LoCache(p)

\* time passes, to the next instant; the instants are hours apart and no call lasts
\* that long
SessTick ==
    /\ \A p \in Procs : OtpIdle(p)
    /\ \E t \in SessInstants :
           /\ t > now
           /\ \A u \in SessInstants : u > now => t <= u
           /\ now' = t
    /\ cache' = Purge(cache, now')
    /\ UNCHANGED <<sessions, ssVars>>
    /\ UNCHANGED ssFrame

\* the datastore goes away or comes back
StoreFlip ==
    /\ storeUp' = ~storeUp
    /\ UNCHANGED <<now, cache, cacheUp, rlVars, bfVars, otpVars, ssVars>>

SsInit ==
    /\ ssProc = [p \in Procs |-> SsIdle]
    /\ ssCalls = 0
    /\ ssLast = NoCall
    /\ ssPrev = NoCall

Init ==
    /\ now = 0
    /\ cache = <<>>
    /\ cacheUp = TRUE
    /\ storeUp = TRUE
    /\ RlInit
    /\ BfInit
    /\ OtpInit
    /\ SsInit

\* send_otp and verify_otp calls one after the other
NextOtpSeq ==
    \/ \E identifier \in Identifiers, otp \in Codes : SoCheck("p1", identifier, otp)
    \/ SoStep("p1")
    \/ \E token \in Tokens, otp \in Codes : VoGetToken("p1", token, otp)
    \/ VoStep("p1")
    \/ OtpTick

SpecOtpSeq == Init /\ [][NextOtpSeq]_vars

\* an OTP in the middle of its life: issued, its token written at time 0, its row in
\* any state the calls so far can have left it in (a call that stopped after its row
\* update leaves a verified row whose token is still there)
InitOtpMid ==
    /\ now = 0
    /\ cacheUp = TRUE
    /\ storeUp = TRUE
    /\ cache = Setex(<<>>, TokenKey(1), 4 * otp_expiry, 1, 0)
    /\ \E a \in 0 .. max_otp_attempts, v \in BOOLEAN,
          e \in {otp_expiry - OtpTickStep, otp_expiry} :
           /\ otps = <<[phone_or_email |-> "+919876543210", otp_code |-> Hash("123456"),
                        attempts |-> a, verified |-> v, expires_at |-> e]>>
           /\ voCalls = IF a > MaxVerifies - 2 THEN a ELSE MaxVerifies - 2
    /\ vendors = <<>>
    /\ sessions = <<>>
    /\ soProc = [p \in Procs |-> SoIdle]
    /\ soCalls = 1
    /\ voProc = [p \in Procs |-> VoIdle]
    /\ voLog = <<>>
    /\ RlInit
    /\ BfInit
    /\ SsInit

\* the calls that follow, one after the other
SpecOtpMid == InitOtpMid /\ [][NextOtpSeq]_vars

\* the state one send_otp at time 0 leaves: the row, its token mapping, the quota at 1
InitIssued ==
    /\ now = 0
    /\ cacheUp = TRUE
    /\ storeUp = TRUE
    /\ cache = Setex(Setex(<<>>, QuotaKey("+919876543210"), 4 * QuotaTtl, 1, 0),
                     TokenKey(1), 4 * otp_expiry, 1, 0)
    /\ otps = <<[phone_or_email |-> "+919876543210", otp_code |-> Hash("123456"),
                 attempts |-> 0, verified |-> FALSE, expires_at |-> otp_expiry]>>
    /\ vendors = <<>>
    /\ sessions = <<>>
    /\ soProc = [p \in Procs |-> SoIdle]
    /\ soCalls = 1
    /\ voProc = [p \in Procs |-> VoIdle]
    /\ voCalls = 0
    /\ voLog = <<>>
    /\ RlInit
    /\ BfInit
    /\ SsInit

\* verify_otp calls one after the other while the cache and the datastore come and go
NextOtpFail ==
    \/ \E token \in Tokens, otp \in Codes : VoGetToken("p1", token, otp)
    \/ VoSelect("p1")
    \/ VoUpdate("p1")
    \/ VoVendorSelect("p1")
    \/ VoVendorWrite("p1")
    \/ VoSessionInsert("p1")
    \/ VoSessionCache("p1")
    \/ VoDeleteToken("p1")
    \/ CacheFlip
    \/ StoreFlip

SpecOtpFail == InitIssued /\ [][NextOtpFail]_vars

\* the guard's pairs of the verify-otp endpoint
VerifyPairs == Clients \X {VerifyPath}

\* verify_otp calls of the one client and calls of the guard for that client and the
\* verify-otp endpoint, one call after the other, all at one instant (no lockout ends)
NextOtpGuard ==
    \/ \E token \in Tokens, otp \in Codes :
           bfProc["p1"] = BfIdle /\ VoGetToken("p1", token, otp)
    \/ VoStep("p1")
    \/ \E k \in VerifyPairs : voProc["p1"] = VoIdle /\ BfRecGet("p1", k[1], k[2])
    \/ \E k \in VerifyPairs : voProc["p1"] = VoIdle /\ BfLockGet("p1", k[1], k[2])
    \/ \E k \in VerifyPairs : voProc["p1"] = VoIdle /\ BfClearFailed("p1", k[1], k[2])
    \/ BfRecSetexAttempts("p1")
    \/ BfRecSetexLockout("p1")
    \/ BfLockCompare("p1")
    \/ BfClearLockout("p1")

SpecOtpGuard == InitIssued /\ [][NextOtpGuard]_vars

\* the quota counts the start below draws from
QuotaCounts == (otp_rate_limit - MaxOtps) .. otp_rate_limit

\* the token mappings of the first n OTPs, written at time 0
RECURSIVE WithTokens(_, _)
WithTokens(c, n) ==
    IF n = 0 THEN c ELSE WithTokens(Setex(c, TokenKey(n), 4 * otp_expiry, n, 0), n - 1)

\* an identifier that has just been sent h OTPs within the hour, all at time 0: their
\* rows and token mappings, and the quota counter at h with its hour to live.  A
\* lockout of an earlier hour may still be stored: one set late in that hour outlives
\* the counter of that hour, and is not looked at while the new count is under the
\* limit.  Here it runs out at OtpTickStep.  The rows of the earlier hour are left out:
\* send_otp reads no row.  soCalls counts the calls made from here on.
InitQuota ==
    /\ now = 0
    /\ cacheUp = TRUE
    /\ storeUp = TRUE
    /\ \E h \in QuotaCounts, leftover \in BOOLEAN :
           LET counted == Setex(<<>>, QuotaKey("+919876543210"), 4 * QuotaTtl, h, 0)
               locked == IF leftover
                         THEN Setex(counted, AuthLockoutKey("+919876543210"),
                                    4 * OtpTickStep, OtpTickStep, 0)
                         ELSE counted
           IN  /\ cache = WithTokens(locked, h)
               /\ otps = [i \in 1 .. h |->
                            [phone_or_email |-> "+919876543210", otp_code |-> Hash("123456"),
                             attempts |-> 0, verified |-> FALSE, expires_at |-> otp_expiry]]
    /\ vendors = <<>>
    /\ sessions = <<>>
    /\ soProc = [p \in Procs |-> SoIdle]
    /\ soCalls = 0
    /\ voProc = [p \in Procs |-> VoIdle]
    /\ voCalls = 0
    /\ voLog = <<>>
    /\ RlInit
    /\ BfInit
    /\ SsInit

\* send_otp calls at and over the quota, one after the other
NextOtpQuota ==
    \/ \E identifier \in Identifiers, otp \in Codes : SoCheck("p1", identifier, otp)
    \/ SoStep("p1")
    \/ SoQuotaStep("p1")
    \/ OtpTick

SpecOtpQuota == InitQuota /\ [][NextOtpQuota]_vars

\* verify_otp calls in parallel within one instant, the codes issued one at a time
NextOtpConc ==
    \/ \E identifier \in Identifiers, otp \in Codes : SoCheck("p1", identifier, otp)
    \/ SoStep("p1")
    \/ \E p \in Procs, token \in Tokens, otp \in Codes : VoGetToken(p, token, otp)
    \/ \E p \in Procs : VoStep(p)

SpecOtpConc == Init /\ [][NextOtpConc]_vars

\* the cache right after a login at time 0, and the same with the session entry evicted
\* (the cache is not durable)
CacheAfterLogin ==
    Setex(Setex(<<>>, QuotaKey("+919876543210"), 4 * QuotaTtl, 1, 0),
          SessionKey(Jwt(1, "access", 0, AccessLifetime)), 4 * SessionCacheTtl,
          [vendor_id |-> 1, expires_at |-> SessionLifetime], 0)
CacheEvicted == Setex(<<>>, QuotaKey("+919876543210"), 4 * QuotaTtl, 1, 0)

\* the state send_otp and a successful verify_otp at time 0 leave
LoggedIn ==
    /\ now = 0
    /\ cacheUp = TRUE
    /\ storeUp = TRUE
    /\ otps = <<[phone_or_email |-> "+919876543210", otp_code |-> Hash("123456"),
                 attempts |-> 1, verified |-> TRUE, expires_at |-> otp_expiry]>>
    /\ vendors = <<[phone_number |-> "+919876543210", status |-> "active"]>>
    /\ sessions = <<[vendor_id |-> 1,
                     session_token |-> Jwt(1, "access", 0, AccessLifetime),
                     refresh_token |-> Jwt(1, "refresh", 0, SessionLifetime),
                     expires_at |-> SessionLifetime]>>
    /\ soProc = [p \in Procs |-> SoIdle]
    /\ soCalls = 1
    /\ voProc = [p \in Procs |-> VoIdle]
    /\ voCalls = 1
    /\ voLog = <<[token |-> 1, correct |-> TRUE, res |-> "OK", remaining |-> 0,
                  found |-> TRUE, unexpired |-> TRUE, after |-> FALSE]>>
    /\ RlInit
    /\ BfInit
    /\ SsInit

InitLoggedIn == LoggedIn /\ cache \in {CacheAfterLogin, CacheEvicted}

\* session calls one after the other, from a login
NextSessSeq ==
    \/ \E token \in KnownTokens : VsGet("p1", token)
    \/ \E token \in KnownTokens : RtSelect("p1", token)
    \/ \E token \in KnownTokens : LoDelete("p1", token)
    \/ SsStep("p1")
    \/ SessTick

SpecSessSeq == InitLoggedIn /\ [][NextSessSeq]_vars

\* the same while the cache and the datastore come and go
NextSessFail ==
    \/ \E token \in KnownTokens : VsGet("p1", token)
    \/ \E token \in KnownTokens : RtSelect("p1", token)
    \/ \E token \in KnownTokens : LoDelete("p1", token)
    \/ SsStep("p1")
    \/ SessTick
    \/ CacheFlip
    \/ StoreFlip

SpecSessFail == InitLoggedIn /\ [][NextSessFail]_vars

\* session calls in parallel, from a login; time passes between them
NextSessConc ==
    \/ \E p \in Procs, token \in KnownTokens : VsGet(p, token)
    \/ \E p \in Procs : VsSelect(p)
    \/ \E p \in Procs : VsTouch(p)
    \/ \E p \in Procs, token \in KnownTokens : RtSelect(p, token)
    \/ \E p \in Procs : RtUpdate(p)
    \/ \E p \in Procs : RtCache(p)
    \/ \E p \in Procs, token \in KnownTokens : LoDelete(p, token)
    \/ \E p \in Procs : LoCache(p)
    \/ SessTick

SpecSessConc == InitLoggedIn /\ [][NextSessConc]_vars

\* the instants of a vendor's second login: within the second of the first, or half an
\* hour later
SecondLoginAt == {0, 1800}

\* the cache two logins leave, the first at time 0 and the second at t2, and the same
\* with the session entries evicted
QuotaAfterTwoLogins(t2) == Setex(<<>>, QuotaKey("+919876543210"), 4 * QuotaTtl, 2, t2)

CacheAfterTwoLogins(t2) ==
    Setex(Setex(QuotaAfterTwoLogins(t2),
                SessionKey(Jwt(1, "access", 0, AccessLifetime)), 4 * SessionCacheTtl,
                [vendor_id |-> 1, expires_at |-> SessionLifetime], 0),
          SessionKey(Jwt(1, "access", t2, AccessLifetime)), 4 * SessionCacheTtl,
          [vendor_id |-> 1, expires_at |-> t2 + SessionLifetime], t2)

\* the state two logins of one vendor leave in the datastore: two send_otp and two
\* successful verify_otp calls
TwoLogins(t2) ==
    /\ now = t2
    /\ otps = [i \in 1 .. 2 |->
                 [phone_or_email |-> "+919876543210", otp_code |-> Hash("123456"),
                  attempts |-> 1, verified |-> TRUE,
                  expires_at |-> (IF i = 1 THEN 0 ELSE t2) + otp_expiry]]
    /\ vendors = <<[phone_number |-> "+919876543210", status |-> "active"]>>
    /\ sessions = [i \in 1 .. 2 |->
                     LET t == IF i = 1 THEN 0 ELSE t2
                     IN  [vendor_id |-> 1,
                          session_token |-> Jwt(1, "access", t, AccessLifetime),
                          refresh_token |-> Jwt(1, "refresh", t, SessionLifetime),
                          expires_at |-> t + SessionLifetime]]
    /\ voLog = [i \in 1 .. 2 |->
                  [token |-> i, correct |-> TRUE, res |-> "OK", remaining |-> 0,
                   found |-> TRUE, unexpired |-> TRUE, after |-> FALSE]]
    /\ soCalls = 2
    /\ voCalls = 2

InitTwoLogins ==
    /\ \E t2 \in SecondLoginAt :
           /\ TwoLogins(t2)
           /\ cache \in {CacheAfterTwoLogins(t2), QuotaAfterTwoLogins(t2)}
    /\ cacheUp = TRUE
    /\ storeUp = TRUE
    /\ soProc = [p \in Procs |-> SoIdle]
    /\ voProc = [p \in Procs |-> VoIdle]
    /\ RlInit
    /\ BfInit
    /\ SsInit

\* session calls one after the other, from two logins of one vendor
SpecSessTwo == InitTwoLogins /\ [][NextSessSeq]_vars

\* the guard's calls one after the other
NextBfSeq ==
    \/ \E k \in BfPairs : BfRecGet("p1", k[1], k[2])
    \/ \E k \in BfPairs : BfLockGet("p1", k[1], k[2])
    \/ \E k \in BfPairs : BfClearFailed("p1", k[1], k[2])
    \/ BfStep("p1")
    \/ BfTick

SpecBfSeq == Init /\ [][NextBfSeq]_vars

\* the guard's calls one after the other while the cache comes and goes
NextBfFail ==
    \/ \E k \in BfPairs : BfRecGet("p1", k[1], k[2])
    \/ \E k \in BfPairs : BfLockGet("p1", k[1], k[2])
    \/ \E k \in BfPairs : BfClearFailed("p1", k[1], k[2])
    \/ BfStep("p1")
    \/ BfTick
    \/ CacheFlip

SpecBfFail == Init /\ [][NextBfFail]_vars

\* failures and lockout checks of two clients on two endpoints, one after the other
NextBfPairs ==
    \/ \E k \in BfAllPairs : BfRecGet("p1", k[1], k[2])
    \/ \E k \in BfAllPairs : BfLockGet("p1", k[1], k[2])
    \/ BfRecSetexAttempts("p1")
    \/ BfRecSetexLockout("p1")
    \/ BfLockCompare("p1")

SpecBfPairs == Init /\ [][NextBfPairs]_vars

\* failures of one pair recorded in parallel
NextBfConc ==
    \/ \E p \in Procs, k \in BfPairs : BfRecGet(p, k[1], k[2])
    \/ \E p \in Procs : BfRecSetexAttempts(p)
    \/ \E p \in Procs : BfRecSetexLockout(p)

SpecBfConc == Init /\ [][NextBfConc]_vars

\* requests one after the other
NextRlSeq ==
    \/ \E path \in ExemptPaths : RlExempt("p1", path)
    \/ \E id \in Clients, ep \in Endpoints : RlBegin("p1", id, ep)
    \/ RlStep("p1")
    \/ RlTick

SpecRlSeq == Init /\ [][NextRlSeq]_vars

\* the hour counts the warm start draws from
WarmCounts == (hour_limit(LoginPath) - MaxRequests) .. hour_limit(LoginPath)

\* one minute into an hour in which the client has made some requests already, all of
\* them in the first second: the minute counter they left has expired
InitWarm ==
    /\ now = MinuteWindow
    /\ \E h \in WarmCounts :
           cache = Setex(<<>>, HourKey("c1", 0), 4 * HourWindow, h, 0)
    /\ cacheUp = TRUE
    /\ storeUp = TRUE
    /\ RlInit
    /\ BfInit
    /\ OtpInit
    /\ SsInit

\* requests one after the other, late in a busy hour
SpecRlWarm == InitWarm /\ [][NextRlSeq]_vars

\* requests one after the other while the cache comes and goes
NextRlFail ==
    \/ \E id \in Clients : RlBegin("p1", id, LoginPath)
    \/ RlStep("p1")
    \/ RlTick
    \/ CacheFlip

SpecRlFail == Init /\ [][NextRlFail]_vars

\* requests in parallel
NextRlConc ==
    \/ \E p \in Procs, id \in Clients : RlBegin(p, id, LoginPath)
    \/ \E p \in Procs : RlStep(p)
    \/ RlTick

SpecRlConc == Init /\ [][NextRlConc]_vars

----------------------------------------------------------------------------
(* Properties of the rate limiter *)

OnlyEndpoint(id, ep) ==
    \A e \in Endpoints \ {ep} : \A b \in Buckets : rlSeen[<<id, e>>][b] = 0

UsedBuckets(id, ep) == {b \in Buckets : rlSeen[<<id, ep>>][b] > 0}

\* C1: one client sending its requests one after the other to one endpoint with
\* minute limit L, from empty counters: while all of them fall in one 60-second
\* bucket the first L are admitted and every later one is rejected with
\* window = "minute"; the first request in the next bucket it uses is admitted.
C1_SequentialMinuteLimit ==
    \A id \in Clients, ep \in Endpoints :
        OnlyEndpoint(id, ep) =>
            /\ \A b \in Buckets :
                   UsedBuckets(id, ep) = {b} =>
                       /\ rlAdmitted[<<id, ep>>][b] =
                              Min(rlSeen[<<id, ep>>][b], sensitive_endpoints[ep].per_minute)
                       /\ rlRejWin[<<id, ep>>] \subseteq {"minute"}
            /\ \A b1, b2 \in Buckets :
                   (b1 < b2 /\ UsedBuckets(id, ep) = {b1, b2}) =>
                       rlAdmitted[<<id, ep>>][b2] >= 1

\* five admitted and a sixth rejected in one bucket, then one admitted in the next
C1_Witness ==
    /\ OnlyEndpoint("c1", LoginPath)
    /\ rlSeen[<<"c1", LoginPath>>][0] = 6
    /\ rlAdmitted[<<"c1", LoginPath>>][0] = 5
    /\ rlRejWin[<<"c1", LoginPath>>] = {"minute"}
    /\ rlSeen[<<"c1", LoginPath>>][1] = 1
    /\ rlAdmitted[<<"c1", LoginPath>>][1] = 1

\* C2: with the requests of one client processed concurrently, the number admitted
\* in a minute window never exceeds the endpoint's minute limit.
C2_ConcurrentAdmissionsWithinLimit ==
    \A id \in Clients, ep \in Endpoints : \A b \in Buckets :
        rlAdmitted[<<id, ep>>][b] <= sensitive_endpoints[ep].per_minute


\* C17: the check rejects exactly when the minute count has reached the minute limit or
\* the hour count the hour limit, on the counts before this request is counted; with
\* both reached it reports the minute window, with only the hour count reached the
\* hour window; an admission reports minute_remaining = limit - count - 1 >= 0.
C17_DecisionRule ==
    (rlLast.event = "decided" /\ ~rlLast.check_failed) =>
        LET mc == rlLast.minute_count
            hc == rlLast.hour_count
            ml == sensitive_endpoints[rlLast.ep].per_minute
            hl == sensitive_endpoints[rlLast.ep].per_hour
        IN  /\ hc = GetInt(cache, HourKey("c1", now), now)
            /\ ~rlLast.allowed <=> (mc >= ml \/ hc >= hl)
            /\ (mc >= ml /\ hc >= hl) => rlLast.window = "minute"
            /\ (mc >= ml /\ hc < hl) => rlLast.window = "minute"
            /\ (mc < ml /\ hc >= hl) => rlLast.window = "hour"
            /\ rlLast.allowed =>
                   /\ rlLast.minute_remaining = ml - mc - 1
                   /\ rlLast.minute_remaining >= 0

\* a request that finds both counters at their limits
C17_Witness ==
    /\ rlLast.event = "decided"
    /\ rlLast.ep = LoginPath
    /\ rlLast.minute_count = 5 /\ rlLast.hour_count = 20
    /\ rlLast.window = "minute" /\ ~rlLast.allowed

\* a request that finds only the hour counter at its limit
C17_HourOnly ==
    /\ rlLast.event = "decided"
    /\ rlLast.minute_count = 0 /\ rlLast.hour_count = 20
    /\ rlLast.window = "hour"

RECURSIVE SumUpTo(_, _)
SumUpTo(f, n) == IF n < 0 THEN 0 ELSE f[n] + SumUpTo(f, n - 1)

\* the requests of a client admitted so far, over its endpoints and minute buckets
AdmittedTotal(id) ==
    LET last == (MaxTime + RlTickStep) \div MinuteWindow
    IN  SumUpTo(rlAdmitted[<<id, LoginPath>>], last) + SumUpTo(rlAdmitted[<<id, VerifyPath>>], last)

\* C18, between requests: the hour counter of a client is the number of its requests
\* admitted so far.
HourCounterIsAdmitted ==
    (\A p \in Procs : rlProc[p].pc = "idle") =>
        \A id \in Clients : GetInt(cache, HourKey(id, now), now) = AdmittedTotal(id)

\* C18, step by step: the INCR of an admitted request adds exactly one to the current
\* minute counter and one to the current hour counter; a request passes each INCR
\* once; the check, a rejection and an exempt path leave the cache as it is.
CountersStep ==
    \A p \in Procs :
        LET r == rlProc[p]
            r2 == rlProc'[p]
            m == MinuteKey(r.id, now)
            h == HourKey(r.id, now)
        IN  /\ (r.pc = "incr_minute" /\ r2.pc # "incr_minute") =>
                   /\ r2.pc = "expire_minute"
                   /\ GetInt(cache', m, now) = GetInt(cache, m, now) + 1
                   /\ GetInt(cache', h, now) = GetInt(cache, h, now)
            /\ (r.pc = "expire_minute" /\ r2.pc # "expire_minute") =>
                   /\ r2.pc = "incr_hour"
                   /\ \A k \in DOMAIN cache : k \in DOMAIN cache' /\ cache'[k].val = cache[k].val
            /\ (r.pc = "incr_hour" /\ r2.pc # "incr_hour") =>
                   /\ r2.pc = "expire_hour"
                   /\ GetInt(cache', h, now) = GetInt(cache, h, now) + 1
                   /\ GetInt(cache', m, now) = GetInt(cache, m, now)
            /\ (r.pc = "expire_hour" /\ r2.pc # "expire_hour") =>
                   /\ r2.pc = "idle"
                   /\ \A k \in DOMAIN cache : k \in DOMAIN cache' /\ cache'[k].val = cache[k].val
            /\ (r.pc = "get_hour" /\ r2.pc # "get_hour") =>
                   /\ cache' = cache
                   /\ r2.pc = IF rlLast'.allowed THEN "incr_minute" ELSE "idle"
            /\ (r.pc = "idle" /\ r2.pc # "idle") => cache' = cache /\ r2.pc = "get_hour"
            /\ (rlStarted' # rlStarted /\ rlLast'.ep \in ExemptPaths) => cache' = cache

\* C18: every admitted request adds exactly one to the current minute counter and one
\* to the current hour counter of its client; a rejected request and a request to an
\* exempt path change no counter.
C18_CountedOnce == []HourCounterIsAdmitted /\ [][CountersStep]_vars

\* five admitted, one rejected, then a request to an exempt path
C18_Witness ==
    /\ rlLast.event = "done" /\ rlLast.ep \in ExemptPaths
    /\ rlRejWin[<<"c1", LoginPath>>] = {"minute"}
    /\ AdmittedTotal("c1") = 5
    /\ GetInt(cache, HourKey("c1", now), now) = 5
    /\ GetInt(cache, MinuteKey("c1", now), now) = 5

\* C14: a request whose rate-limit check met a cache failure is admitted and goes on to
\* the handler, and a cache failure while incrementing the counters still ends in the
\* handler: neither is rejected.
C14_FailOpen ==
    /\ rlLast.check_failed => rlLast.allowed /\ rlLast.outcome # "rejected"
    /\ rlLast.incr_failed => rlLast.outcome = "forwarded"
    /\ \A p \in Procs :
           rlProc[p].check_failed =>
               rlProc[p].pc \in {"incr_minute", "expire_minute", "incr_hour", "expire_hour"}

\* a request reached the handler although its check and its increment both failed
C14_Witness ==
    /\ rlLast.event = "done"
    /\ rlLast.check_failed /\ rlLast.incr_failed
    /\ rlLast.outcome = "forwarded"

----------------------------------------------------------------------------
(* Properties of the brute force guard *)

\* what is_locked_out would return in the current state
LockedOutNow(id, ep) ==
    LockedOut(Has(cache, LockoutKey(id, ep), now), GetInt(cache, LockoutKey(id, ep), now), now)

\* C8: from no stored state for a pair, the first four consecutive
\* record_failed_attempt calls leave it not locked out, and the fifth sets a lockout:
\* is_locked_out then returns locked with remaining time > 0.
C8_FifthFailureLocks ==
    \A k \in BfPairs :
        /\ bfStreak[k] \in 1 .. 4 => ~LockedOutNow(k[1], k[2]).locked
        /\ (bfStreak[k] = 5 /\ bfFresh[k]) =>
               /\ LockedOutNow(k[1], k[2]).locked
               /\ LockedOutNow(k[1], k[2]).remaining > 0

\* C9: the lockout set at failure count n >= 5 lasts min(900 * 2^(n-5), 3600) seconds:
\* it grows with each further failure until it reaches 3600 and never exceeds that.
C9_ProgressiveDuration ==
    \A k \in BfPairs :
        LET l == bfLock[k]
        IN  l.n > 0 =>
                /\ l.n >= 5
                /\ l.d = Min(900 * 2 ^ (l.n - 5), 3600)
                /\ l.d <= 3600
                /\ (l.prevN > 0 /\ l.n = l.prevN + 1) =>
                        IF l.prevD < 3600 THEN l.d > l.prevD ELSE l.d = 3600
                /\ (l.set /\ bfFresh[k]) =>
                        /\ Has(cache, LockoutKey(k[1], k[2]), now)
                        /\ cache[LockoutKey(k[1], k[2])].val = now + Min(900 * 2 ^ (l.n - 5), 3600)
                        /\ cache[LockoutKey(k[1], k[2])].exp = 4 * (now + l.d)

\* the eighth failure in a row: the duration stays at the cap it reached at the seventh
C9_Witness ==
    \E k \in BfPairs :
        /\ bfLock[k].n = 8 /\ bfLock[k].d = 3600
        /\ bfLock[k].prevN = 7 /\ bfLock[k].prevD = 3600
        /\ bfFresh[k]

\* C10: with a lockout set at t for d seconds and no failure recorded since,
\* is_locked_out at t' returns (locked, t + d - t') while t' < t + d and
\* (not locked, 0) from t + d on.
C10_RemainingTime ==
    \A p \in Procs :
        LET res == bfRes[p]
            l == bfLock[<<res.id, res.ep>>]
        IN  (res.valid /\ l.set) =>
                IF now < l.until
                THEN res.locked /\ res.remaining = l.until - now
                ELSE ~res.locked /\ res.remaining = 0

\* is_locked_out 300 s into a 900 s lockout
C10_Witness ==
    \E p \in Procs :
        /\ bfRes[p].valid /\ bfRes[p].locked
        /\ bfLock[<<bfRes[p].id, bfRes[p].ep>>].set
        /\ bfLock[<<bfRes[p].id, bfRes[p].ep>>].d = 900
        /\ bfRes[p].remaining > 0
        /\ bfRes[p].remaining < 900

----------------------------------------------------------------------------
(* verify_otp *)

\* the number of calls with the same token that returned before call i
Earlier(i) == Cardinality({j \in 1 .. (i - 1) : voLog[j].token = voLog[i].token})

\* call i gave the code that was issued, before the row's expiry
Good(i) == voLog[i].correct /\ voLog[i].unexpired

\* C3 as stated: of two sequential verify_otp calls with the same token and the correct
\* code on an unexpired row, the first succeeds and the second fails with
\* 'OTP already used'.
C3_SecondIsAlreadyUsed ==
    \A i, j \in 1 .. Len(voLog) :
        (/\ i < j /\ voLog[i].token = voLog[j].token
         /\ Earlier(i) = 0 /\ Earlier(j) = 1
         /\ Good(i) /\ Good(j))
        => voLog[i].res = "OK" /\ voLog[j].res = "AlreadyUsed"

\* C3 amended: of two sequential verify_otp calls with the same token and the correct
\* code on an unexpired row, the first succeeds and the second fails with
\* 'Invalid or expired verification token'.
C3_SecondIsTokenInvalid ==
    \A i, j \in 1 .. Len(voLog) :
        (/\ i < j /\ voLog[i].token = voLog[j].token
         /\ Earlier(i) = 0 /\ Earlier(j) = 1
         /\ Good(i) /\ Good(j))
        => voLog[i].res = "OK" /\ voLog[j].res = "TokenInvalid"

\* two calls with the correct code have returned, the first with a session
C3_Witness ==
    \E i, j \in 1 .. Len(voLog) :
        /\ i < j /\ voLog[i].token = voLog[j].token
        /\ Earlier(i) = 0 /\ Earlier(j) = 1
        /\ Good(i) /\ Good(j)
        /\ voLog[i].res = "OK" /\ voLog[j].res = "TokenInvalid"
        /\ Len(sessions) = 1

\* C4: verify_otp calls with the correct code for one OTP row, however they interleave,
\* never both succeed.
C4_AtMostOneSuccess ==
    \A token \in Tokens :
        Cardinality({i \in 1 .. Len(voLog) :
                        voLog[i].token = token /\ voLog[i].res = "OK"}) <= 1

\* C5: verify_otp that loads an unexpired, unverified row with attempts >= 3 fails with
\* 'Maximum OTP attempts exceeded' whatever the code, and leaves the row, the sessions
\* and the cache as they were.
C5_ExhaustedAlwaysFails ==
    [][ \A p \in Procs :
          LET r == voProc[p]
          IN  (/\ r.pc = "select" /\ voProc'[p].pc # "select"
               /\ r.found /\ r.otp_id \in 1 .. Len(otps)
               /\ now <= otps[r.otp_id].expires_at
               /\ ~otps[r.otp_id].verified
               /\ otps[r.otp_id].attempts >= max_otp_attempts)
              => /\ Len(voLog') = Len(voLog) + 1
                 /\ voLog'[Len(voLog')].res = "AttemptsExhausted"
                 /\ voLog'[Len(voLog')].token = r.token
                 /\ voProc'[p].pc = "idle"
                 /\ otps' = otps /\ sessions' = sessions /\ vendors' = vendors
                 /\ cache' = cache ]_vars

\* the correct code was refused on an unexpired row that had used up its attempts
C5_Witness ==
    \E i \in 1 .. Len(voLog) :
        /\ Good(i) /\ voLog[i].found
        /\ voLog[i].res = "AttemptsExhausted"
        /\ sessions = <<>>

\* call i is the third with its token, and all three gave a wrong code before expiry
ThirdWrong(i) ==
    /\ Earlier(i) = 2
    /\ \A j \in 1 .. i : voLog[j].token = voLog[i].token =>
           ~voLog[j].correct /\ voLog[j].unexpired /\ voLog[j].found

\* call k is the fourth with its token, after three wrong ones, and gave the correct code
FourthCorrect(k) ==
    /\ Earlier(k) = 3 /\ voLog[k].correct
    /\ \E i \in 1 .. (k - 1) : voLog[i].token = voLog[k].token /\ ThirdWrong(i)

\* C6 as stated: the third of three wrong codes is reported as 'Maximum OTP attempts
\* exceeded', and a fourth call with the correct code fails.
C6_ThirdReportsExhausted ==
    \A i \in 1 .. Len(voLog) :
        /\ ThirdWrong(i) => voLog[i].res = "AttemptsExhausted"
        /\ FourthCorrect(i) => voLog[i].res # "OK"

\* C6 amended: the third of three wrong codes is reported as 'Invalid OTP. 0 attempts
\* remaining', and a fourth call with the correct code fails, with 'Maximum OTP attempts
\* exceeded' while the row has not expired.
C6_ThirdReportsInvalidCode ==
    \A i \in 1 .. Len(voLog) :
        /\ ThirdWrong(i) => voLog[i].res = "InvalidCode" /\ voLog[i].remaining = 0
        /\ FourthCorrect(i) =>
               /\ voLog[i].res # "OK"
               /\ voLog[i].unexpired => voLog[i].res = "AttemptsExhausted"

\* three wrong codes, then the correct one before expiry
C6_Witness ==
    \E k \in 1 .. Len(voLog) :
        /\ FourthCorrect(k) /\ voLog[k].unexpired
        /\ voLog[k].res = "AttemptsExhausted"
        /\ otps[voLog[k].token].attempts = 3

\* C7: a verify_otp call made after a call with the same token has succeeded finds the
\* token gone and fails with 'Invalid or expired verification token'; it returns no
\* session.
C7_ConsumedTokenRejected ==
    \A i \in 1 .. Len(voLog) :
        voLog[i].after => voLog[i].res = "TokenInvalid" /\ ~voLog[i].found

\* a consumed token was presented again while the row had not expired
C7_Witness ==
    \E i \in 1 .. Len(voLog) :
        /\ voLog[i].after /\ voLog[i].unexpired
        /\ voLog[i].res = "TokenInvalid"
        /\ otps[voLog[i].token].verified

\* a row that has used up its attempts without being verified
Exhausted(row) == row.attempts >= max_otp_attempts /\ ~row.verified

\* C19: a verified row never becomes unverified, and an exhausted row never has fewer
\* than 3 attempts again and never becomes verified, also with verify_otp calls on the
\* same row in parallel.
C19_TerminalStates ==
    [][ \A i \in 1 .. Len(otps) :
          /\ otps[i].verified => otps'[i].verified
          /\ Exhausted(otps[i]) => Exhausted(otps'[i]) ]_vars

\* C20: verify_otp reports the first failure that applies, in the order: token absent
\* from the cache, row past expires_at, row verified, attempts >= 3, code mismatch; a
\* token never issued and a token whose TTL has run out get the same error.
C20_FailureOrder ==
    [][ \A p \in Procs :
          LET r == voProc[p]
              res == IF Len(voLog') > Len(voLog) THEN voLog'[Len(voLog')].res ELSE ""
          IN  /\ (r.pc = "select" /\ voProc'[p].pc # "select") =>
                  IF ~r.found THEN res = "TokenInvalid"
                  ELSE IF now > otps[r.token].expires_at THEN res = "Expired"
                  ELSE IF otps[r.token].verified THEN res = "AlreadyUsed"
                  ELSE IF otps[r.token].attempts >= 3 THEN res = "AttemptsExhausted"
                  ELSE res = "" /\ voProc'[p].pc = "update"
              /\ (r.pc = "update" /\ voProc'[p].pc # "update") =>
                  IF otps[r.token].otp_code # Hash(r.otp) THEN res = "InvalidCode"
                  ELSE res = "" /\ voProc'[p].pc = "vendor_select" ]_vars

\* 'OTP has expired' was reported for a row that is also verified and out of attempts
C20_Witness ==
    /\ Len(voLog) > 0
    /\ LET e == voLog[Len(voLog)]
       IN  /\ e.res = "Expired" /\ e.found
           /\ otps[e.token].verified
           /\ otps[e.token].attempts >= 3

\* a token never issued and a token whose TTL has run out were both refused
C20_SameError ==
    \E i, j \in 1 .. Len(voLog) :
        /\ voLog[i].token > Len(otps) /\ voLog[i].res = "TokenInvalid"
        /\ voLog[j].token <= Len(otps) /\ voLog[j].res = "TokenInvalid"
        /\ ~otps[voLog[j].token].verified

----------------------------------------------------------------------------
(* Properties of the session manager *)

\* no session call is in flight and none has returned since the latest at this instant
JustReturned(op) ==
    /\ ssLast.op = op /\ ssLast.at = now
    /\ \A p \in Procs : ssProc[p].pc = "idle"

HasRowWith(token) == \E i \in 1 .. Len(sessions) : sessions[i].session_token = token

\* C11: validate_session on an access token issued more than an hour ago returns
\* unauthenticated, and afterwards neither the cache entry nor the row of the session
\* exists.
C11_StaleTokenRejected ==
    (/\ JustReturned("validate")
     /\ ssLast.token.type = "access" /\ ssLast.token.sig = "HS256:JWT_SECRET"
     /\ now > ssLast.token.iat + AccessLifetime)
    => /\ ssLast.res = "denied"
       /\ ~Has(cache, SessionKey(ssLast.token), now)
       /\ ~HasRowWith(ssLast.token)

\* C12: validate_session on an access token right after logout with it returns
\* unauthenticated, and after the logout no row carries the token and the cache holds
\* no entry for it.
C12_LogoutInvalidates ==
    /\ (ssLast.op = "validate" /\ ssPrev.op = "logout" /\ ssPrev.res = "ok"
            /\ ssLast.token = ssPrev.token)
       => ssLast.res = "denied"
    /\ (JustReturned("logout") /\ ssLast.res = "ok")
       => ~HasRowWith(ssLast.token) /\ ~Has(cache, SessionKey(ssLast.token), now)

\* login, logout with the access token, validate_session on it
C12_Witness ==
    /\ ssPrev.op = "logout" /\ ssPrev.res = "ok"
    /\ ssPrev.token = Jwt(1, "access", 0, AccessLifetime)
    /\ ssLast.op = "validate" /\ ssLast.token = ssPrev.token /\ ssLast.res = "denied"
    /\ ssLast.at = 0
    /\ sessions[1] = NoRow

\* C13: validate_session never raises: a badly signed token, a token of another type,
\* a lookup that finds no row, and a cache or datastore call that fails all end in
\* unauthenticated.
C13_NeverRaises ==
    ssLast.op = "validate" =>
        /\ ssLast.res \in {"ok", "denied"}
        /\ (\/ ssLast.error
            \/ ssLast.token.sig # "HS256:JWT_SECRET"
            \/ ssLast.token.type # "access") => ssLast.res = "denied"
        /\ (/\ JustReturned("validate")
            /\ ~CachedSessionValid(cache, ssLast.token, now)
            /\ ~HasRowWith(ssLast.token)) => ssLast.res = "denied"

\* the datastore failed under a validate_session that had missed the cache
C13_Witness ==
    /\ ssLast.op = "validate" /\ ssLast.error /\ ssLast.res = "denied"
    /\ ssLast.token.type = "access" /\ ssLast.token.sig = "HS256:JWT_SECRET"
    /\ HasRowWith(ssLast.token)
    /\ cacheUp /\ ~storeUp

\* C15: validate_session rejects a refresh token, on its type and before any lookup,
\* and refresh_token rejects an access token; only an access token validates, only a
\* refresh token refreshes, and logout with a token that is not an access token
\* removes nothing.
TypesHonoured ==
    /\ (ssLast.op = "validate" /\ ssLast.token.type # "access") => ssLast.res = "denied"
    /\ (ssLast.op = "refresh" /\ ssLast.token.type # "refresh") => ssLast.res = "raised"
    /\ \A p \in Procs :
           /\ ssProc[p].pc \in {"vs_select", "vs_touch", "vs_delete_row", "vs_delete_cache"}
                  => ssProc[p].token.type = "access"
           /\ ssProc[p].pc \in {"rt_update", "rt_cache"} => ssProc[p].token.type = "refresh"

LogoutStep ==
    \A p \in Procs :
        (ssProc'[p].op = "logout" /\ ssProc'[p].token.type # "access")
            => sessions' = sessions /\ (now' = now => cache' = cache)

C15_KindsNotInterchangeable == []TypesHonoured /\ [][LogoutStep]_vars

\* the access token of a live session was presented to refresh_token, and its refresh
\* token to validate_session before that
C15_Witness ==
    /\ ssLast.op = "refresh" /\ ssLast.token.type = "access" /\ ssLast.res = "raised"
    /\ HasRowWith(ssLast.token)
    /\ ssPrev.op = "validate" /\ ssPrev.token.type = "refresh" /\ ssPrev.res = "denied"
    /\ \E i \in 1 .. Len(sessions) : sessions[i].refresh_token = ssPrev.token

\* C16: refresh_token with the refresh token of an unexpired session returns an access
\* token for the same vendor, writes it to the session row and leaves the row's refresh
\* token as it was; the same refresh token refreshes again, and the new access token
\* passes validate_session.
C16_RefreshKeepsRefreshToken ==
    /\ (JustReturned("refresh") /\ ssLast.res = "ok") =>
           /\ ssLast.out.type = "access" /\ ssLast.out.sub = ssLast.token.sub
           /\ ssLast.out.iat = now
           /\ \E i \in 1 .. Len(sessions) :
                  /\ sessions[i].session_token = ssLast.out
                  /\ sessions[i].refresh_token = ssLast.token
                  /\ sessions[i].vendor_id = ssLast.out.sub
    /\ (/\ ssPrev.op = "refresh" /\ ssPrev.res = "ok"
        /\ ssLast.op = "refresh" /\ ssLast.token = ssPrev.token
        /\ ssLast.at <= SessionLifetime) => ssLast.res = "ok"
    /\ (/\ ssPrev.op = "refresh" /\ ssPrev.res = "ok"
        /\ ssLast.op = "validate" /\ ssLast.token = ssPrev.out
        /\ ssLast.at <= ssPrev.out.exp /\ ssLast.at <= SessionLifetime)
       => ssLast.res = "ok" /\ ssLast.vendor_id = ssPrev.out.sub

\* two hours after the login: a refresh, then validate_session on the new access token
C16_Witness ==
    /\ ssPrev.op = "refresh" /\ ssPrev.res = "ok" /\ ssPrev.at = 2 * 3600
    /\ ssPrev.out # Jwt(1, "access", 0, AccessLifetime)
    /\ ssLast.op = "validate" /\ ssLast.token = ssPrev.out /\ ssLast.res = "ok"
    /\ sessions[1].refresh_token = ssPrev.token

----------------------------------------------------------------------------
(* The brute force guard: failures of the cache, clearing, clean-up, pairs *)

\* C21: a cache call that fails inside is_locked_out makes it return (not locked, 0);
\* one that fails inside record_failed_attempt or clear_failed_attempts makes the call
\* return normally.
C21_GuardSwallowsCacheErrors ==
    \A p \in Procs :
        bfRes[p].error =>
            /\ bfRes[p].ended = "returned"
            /\ bfRes[p].op = "is_locked_out" =>
                   bfRes[p].valid /\ ~bfRes[p].locked /\ bfRes[p].remaining = 0
            /\ bfRes[p].op \in {"is_locked_out", "record_failed_attempt",
                                "clear_failed_attempts"}
            /\ bfProc[p].pc = "idle"

\* is_locked_out met a failing cache while a lockout of the pair was in force
C21_Witness ==
    \E p \in Procs :
        /\ bfRes[p].error /\ bfRes[p].op = "is_locked_out" /\ ~bfRes[p].locked
        /\ LockedOutNow(bfRes[p].id, bfRes[p].ep).locked

\* record_failed_attempt met a failing cache after it had written the counter, at the
\* fifth failure: the call returned and no lockout is stored
C21_RecordCutShort ==
    \E p \in Procs :
        /\ bfRes[p].error /\ bfRes[p].op = "record_failed_attempt"
        /\ bfRes[p].ended = "returned"
        /\ GetInt(cache, FailedKey(bfRes[p].id, bfRes[p].ep), now) = max_failed_attempts
        /\ ~Has(cache, LockoutKey(bfRes[p].id, bfRes[p].ep), now)

\* a record_failed_attempt that starts when no call for the pair has completed since the
\* pair's entries were deleted finds no counter: it is about to store 1
CountsFromOne ==
    \A p \in Procs :
        (bfProc[p].pc = "setex_attempts" /\ bfStreak[<<bfProc[p].id, bfProc[p].ep>>] = 0)
            => bfProc[p].attempts = 1

\* the step that ends clear_failed_attempts leaves neither entry of the pair
ClearStep ==
    \A p \in Procs :
        (bfProc[p].pc = "clear_lockout" /\ bfProc'[p].pc = "idle") =>
            LET id == bfProc[p].id
                ep == bfProc[p].ep
            IN  /\ ~Has(cache', FailedKey(id, ep), now')
                /\ ~Has(cache', LockoutKey(id, ep), now')
                /\ LockedOut(Has(cache', LockoutKey(id, ep), now'),
                             GetInt(cache', LockoutKey(id, ep), now'), now')
                       = [locked |-> FALSE, remaining |-> 0, cleanup |-> FALSE]

\* C22: after clear_failed_attempts with the cache reachable the failure counter and the
\* lockout entry of the pair are absent whatever they held: is_locked_out returns
\* (not locked, 0) and the next record_failed_attempt stores a count of 1.
C22_ClearRemovesBoth == []CountsFromOne /\ [][ClearStep]_vars

\* a pair locked out at count 5 or more was cleared while the lockout was in force, and
\* the next failure is being counted as the first
C22_Witness ==
    \E p \in Procs :
        LET k == <<bfProc[p].id, bfProc[p].ep>>
        IN  /\ bfProc[p].pc = "setex_attempts" /\ bfProc[p].attempts = 1
            /\ bfLock[k].n >= max_failed_attempts /\ ~bfLock[k].set
            /\ now < bfLock[k].until
            /\ bfStreak[k] = 0
            /\ ~Has(cache, LockoutKey(k[1], k[2]), now)

\* is_locked_out's comparison and clean-up: a stored lockout that is not in the future
\* is deleted and reported as not locked, and the failure counter goes with it
CleanupStep ==
    \A p \in Procs :
        LET r == bfProc[p]
        IN  /\ (r.pc = "compare" /\ r.found /\ now >= r.until /\ bfProc'[p] # r) =>
                   /\ bfProc'[p].pc = "delete_failed"
                   /\ ~Has(cache', LockoutKey(r.id, r.ep), now')
                   /\ bfRes'[p].valid /\ ~bfRes'[p].locked /\ bfRes'[p].remaining = 0
            /\ (r.pc = "delete_failed" /\ bfProc'[p].pc = "idle") =>
                   /\ ~Has(cache', FailedKey(r.id, r.ep), now')
                   /\ ~Has(cache', LockoutKey(r.id, r.ep), now')
                   /\ ~bfRes'[p].locked /\ bfRes'[p].remaining = 0
                   /\ bfStreak'[<<r.id, r.ep>>] = 0

\* the next call for the pair after a clean-up counts from 1
AfterCleanup ==
    \A p \in Procs :
        LET k == <<bfProc[p].id, bfProc[p].ep>>
        IN  (bfProc[p].pc = "setex_attempts" /\ bfStreak[k] = 0 /\ bfLock[k].n > 0)
                => bfProc[p].attempts = 1

\* C27: is_locked_out that finds a stored lockout whose locked_until is not in the future
\* deletes the lockout entry and the failure counter of the pair and returns
\* (not locked, 0), so that the next record_failed_attempt counts from 1.
C27_LazyCleanup == []AfterCleanup /\ [][CleanupStep]_vars

\* the clean-up ran on a lockout that had been set at the fifth failure or later
C27_Witness ==
    \E p \in Procs :
        LET k == <<bfRes[p].id, bfRes[p].ep>>
        IN  /\ bfRes[p].valid /\ ~bfRes[p].locked /\ bfProc[p].pc = "idle"
            /\ bfLock[k].set /\ bfLock[k].n >= max_failed_attempts
            /\ now >= bfLock[k].until
            /\ bfStreak[k] = 0
            /\ ~Has(cache, FailedKey(k[1], k[2]), now)

\* what the cache holds for a pair: its failure counter and its lockout
PairEntries(k) ==
    [failed |-> IF FailedKey(k[1], k[2]) \in DOMAIN cache
                THEN <<cache[FailedKey(k[1], k[2])]>> ELSE <<>>,
     lockout |-> IF LockoutKey(k[1], k[2]) \in DOMAIN cache
                 THEN <<cache[LockoutKey(k[1], k[2])]>> ELSE <<>>]

\* a step of record_failed_attempt leaves the entries of every other pair as they are
RecordStep ==
    \A p \in Procs :
        LET r == bfProc[p]
        IN  /\ (r.pc = "idle" /\ bfProc'[p].pc = "setex_attempts") => cache' = cache
            /\ (r.pc \in {"setex_attempts", "setex_lockout"} /\ bfProc'[p] # r) =>
                   \A k \in BfAllPairs \ {<<r.id, r.ep>>} : PairEntries(k)' = PairEntries(k)

\* a pair is locked out only by five failures recorded for that very pair
LockedByOwnFailures ==
    \A k \in BfAllPairs :
        LockedOutNow(k[1], k[2]).locked => bfStreak[k] >= max_failed_attempts

\* C28: record_failed_attempt(identity, endpoint A) changes only the failure counter and
\* the lockout of (endpoint A, identity); the same identity on another endpoint and
\* every other identity keep their state, so five failures on one endpoint never lock
\* the identity out of another.
C28_PairsAreSeparate == []LockedByOwnFailures /\ [][RecordStep]_vars

\* c1 is locked out of login after five failures there; is_locked_out for c1 on
\* verify-otp, where it has failed too, returned not locked, and c2 is not locked out
\* of login
C28_Witness ==
    \E p \in Procs :
        /\ LockedOutNow("c1", LoginPath).locked
        /\ bfRes[p].valid /\ bfRes[p].id = "c1" /\ bfRes[p].ep = VerifyPath
        /\ ~bfRes[p].locked
        /\ bfStreak[<<"c1", VerifyPath>>] >= 1
        /\ bfStreak[<<"c2", LoginPath>>] >= 1
        /\ ~LockedOutNow("c2", LoginPath).locked

\* C29: record_failed_attempt calls for one pair that run concurrently raise the stored
\* failure counter by one each, so that five of them always produce a lockout.
C29_NoLostFailure ==
    (\A p \in Procs : bfProc[p].pc = "idle") =>
        \A k \in BfPairs :
            /\ GetInt(cache, FailedKey(k[1], k[2]), now) = bfCalls
            /\ bfCalls >= max_failed_attempts => Has(cache, LockoutKey(k[1], k[2]), now)

----------------------------------------------------------------------------
(* logout again *)

\* the two steps of a logout with a token that has no row and no cache entry
LogoutAbsentStep ==
    \A p \in Procs :
        /\ (/\ ssProc[p].pc = "idle" /\ ssProc'[p].pc = "lo_cache"
            /\ ~HasRowWith(ssProc'[p].token))
           => sessions' = sessions /\ cache' = cache
        /\ (/\ ssProc[p].pc = "lo_cache" /\ ssProc'[p].pc = "idle"
            /\ SessionKey(ssProc[p].token) \notin DOMAIN cache)
           => /\ sessions' = sessions /\ cache' = cache
              /\ ssLast'.op = "logout" /\ ssLast'.token = ssProc[p].token
              /\ ssLast'.res = "ok"

\* a logout right after a successful logout with the same token succeeds as well
SecondLogout ==
    (/\ ssPrev.op = "logout" /\ ssPrev.res = "ok"
     /\ ssLast.op = "logout" /\ ssLast.token = ssPrev.token)
    => ssLast.res = "ok" /\ ~ssLast.error

\* C23: logout is idempotent: with an access token that has no session row and no cache
\* entry, a second logout with the same token included, it returns the success message
\* and leaves every other session row and cache entry as it was.
C23_LogoutIdempotent == []SecondLogout /\ [][LogoutAbsentStep]_vars

\* two logouts in a row with the access token that a refresh had replaced: the row and
\* the cache entry of the session, now under the new access token, are still there
C23_Witness ==
    /\ ssPrev.op = "logout" /\ ssPrev.res = "ok"
    /\ ssLast.op = "logout" /\ ssLast.res = "ok" /\ ssLast.token = ssPrev.token
    /\ ssLast.token = Jwt(1, "access", 0, AccessLifetime)
    /\ sessions[1] # NoRow /\ sessions[1].session_token # ssLast.token
    /\ Has(cache, SessionKey(sessions[1].session_token), now)

----------------------------------------------------------------------------
(* The attempts counter of an OTP row *)

AttemptsCapped == \A i \in 1 .. Len(otps) : otps[i].attempts <= max_otp_attempts

AttemptsStep == \A i \in 1 .. Len(otps) : otps'[i].attempts >= otps[i].attempts

\* C30: the attempts field of an OTP row never decreases and never exceeds 3, however
\* the verify_otp calls on the row interleave.
C30_AttemptsMonotone == []AttemptsCapped /\ [][AttemptsStep]_vars

----------------------------------------------------------------------------
(* The OTP quota *)

TokenKeys(c) == {k \in DOMAIN c : k[1] = "otp_token"}

\* a send_otp that goes on to store an OTP had read a quota count under the limit
AdmittedUnderQuota ==
    \A p \in Procs :
        soProc[p].pc \in {"lockout_delete", "insert", "setex_token", "quota_get", "quota_setex"}
            => soProc[p].checked < otp_rate_limit

\* the steps of a send_otp that read a used-up quota: no row, no token, no increase of
\* the counter, and when the call is refused a lockout is stored that ends within
\* lockout_duration
RefusedStep ==
    \A p \in Procs :
        LET r == soProc[p]
            key == AuthLockoutKey(r.identifier)
        IN  (r.pc \in {"lockout_get", "lockout_compare", "lockout_setex"} /\ soProc'[p] # r) =>
                /\ otps' = otps
                /\ TokenKeys(cache') = TokenKeys(cache)
                /\ GetInt(cache', QuotaKey(r.identifier), now')
                       <= GetInt(cache, QuotaKey(r.identifier), now)
                /\ soProc'[p].pc = "idle" =>
                       /\ Has(cache', key, now')
                       /\ cache'[key].val > now'
                       /\ cache'[key].val <= now' + auth_lockout_duration
                /\ (r.pc = "lockout_setex") =>
                       /\ cache'[key].val = now + auth_lockout_duration
                       /\ cache'[key].exp = 4 * (now + auth_lockout_duration)

\* C24: after five successful send_otp calls for an identifier within the hour of the
\* quota counter the next send_otp is refused and a 15-minute lockout is stored for the
\* identifier; the refused call creates no OTP row and no token and does not raise the
\* quota counter.
C24_QuotaRefuses == []AdmittedUnderQuota /\ [][RefusedStep]_vars

----------------------------------------------------------------------------
(* The rate limiter: endpoints, and what a rejection reports *)

RECURSIVE SumOver(_, _)
SumOver(f, S) ==
    IF S = {} THEN 0
    ELSE LET x == CHOOSE y \in S : TRUE IN f[x] + SumOver(f, S \ {x})

\* C25: the counters are kept per (client, endpoint): a request to an endpoint is
\* rejected only when the client has had as many requests admitted on that endpoint
\* as its smaller limit allows; what the client was admitted on another endpoint does
\* not count.
C25_CountedPerEndpoint ==
    \A id \in Clients, ep \in Endpoints :
        SumOver(rlSeen[<<id, ep>>], Buckets) > SumOver(rlAdmitted[<<id, ep>>], Buckets)
            => SumOver(rlAdmitted[<<id, ep>>], Buckets)
                   >= Min(minute_limit(ep), hour_limit(ep))

\* C26: a rejection reports the reset instant (floor(now / W) + 1) * W of the exhausted
\* window of length W, and a Retry-After of at least 1 and at most W seconds.
C26_ResetAndRetryAfter ==
    (rlLast.event = "decided" /\ rlLast.outcome = "rejected" /\ ~rlLast.check_failed) =>
        LET W == WindowLength(rlLast.window)
        IN  /\ rlLast.window \in {"minute", "hour"}
            /\ rlLast.reset = ((now \div W) + 1) * W
            /\ rlLast.retry_after >= 1
            /\ rlLast.retry_after <= W

----------------------------------------------------------------------------
(* verify_otp: guesses, effects of a failure, and what a success leaves *)

\* the calls on token k that have returned after comparing a code with the stored hash
Compared(k) ==
    {i \in 1 .. Len(voLog) : voLog[i].token = k /\ voLog[i].res \in {"InvalidCode", "OK"}}

\* C31: for one OTP record at most max_otp_attempts verify_otp calls get to compare a
\* code with the stored hash, also when the calls run in parallel.
C31_AtMostThreeGuesses ==
    \A k \in Tokens : Cardinality(Compared(k)) <= max_otp_attempts

\* the stored state verify_otp works on: the rows, the cache, the vendors, the sessions
Stored == <<otps, cache, vendors, sessions>>

\* a step of verify_otp that ends the call in a failure, and the steps before the code
\* is compared
FailureStep ==
    /\ (Len(voLog') = Len(voLog) + 1 /\ voLog'[Len(voLog')].res # "OK") =>
           LET last == voLog'[Len(voLog')]
               k == last.token
           IN  IF last.res = "InvalidCode"
               THEN /\ otps'[k].attempts = otps[k].attempts + 1
                    /\ last.remaining = max_otp_attempts - otps'[k].attempts
                    /\ ~otps'[k].verified
                    /\ otps' = [otps EXCEPT ![k].attempts = @ + 1]
                    /\ <<cache, vendors, sessions>>' = <<cache, vendors, sessions>>
               ELSE /\ last.res \in {"TokenInvalid", "NotFound", "Expired", "AlreadyUsed",
                                     "AttemptsExhausted"}
                    /\ Stored' = Stored
    /\ \A p \in Procs :
           (voProc'[p] # voProc[p] /\ voProc'[p].pc \in {"select", "update"}) =>
               Stored' = Stored

\* C32: a verify_otp call that fails with a wrong code raises attempts by exactly one,
\* reports 3 - (attempts after the increment) remaining, and leaves verified, the token
\* mapping, the vendors and the sessions as they were; a call that fails for another
\* reason changes no stored state.
C32_FailureEffects == [][FailureStep]_vars

\* a wrong code was refused with none remaining on a row left at 3 attempts, unverified,
\* its token still mapped, and a later call on it was refused as exhausted
C32_Witness ==
    \E i, j \in 1 .. Len(voLog) :
        /\ i < j
        /\ voLog[i].res = "InvalidCode" /\ voLog[i].remaining = 0
        /\ voLog[j].res = "AttemptsExhausted" /\ voLog[j].token = voLog[i].token
        /\ otps[voLog[i].token].attempts = max_otp_attempts
        /\ ~otps[voLog[i].token].verified
        /\ Has(cache, TokenKey(voLog[i].token), now)
        /\ vendors = <<>> /\ sessions = <<>>

\* C33: verify_otp is all-or-nothing for the OTP record: once no call is in flight,
\* every record with verified = true has a session that was returned to a caller.
C33_VerifiedHasSession ==
    (\A p \in Procs : voProc[p].pc = "idle") =>
        \A k \in 1 .. Len(otps) :
            otps[k].verified =>
                \E i \in 1 .. Len(voLog) : voLog[i].token = k /\ voLog[i].res = "OK"

----------------------------------------------------------------------------
(* send_otp: the record and the token of an OTP *)

\* every token mapped resolves to a record, and no two of them to the same one
TokensResolveApart ==
    \A k1, k2 \in TokenKeys(cache) :
        /\ cache[k1].val \in 1 .. Len(otps)
        /\ k1 # k2 => cache[k1].val # cache[k2].val

\* the steps of send_otp that store: one new row, or one new token for the row just
\* inserted; a token that stays mapped keeps its record and its expiry
StoreOtpStep ==
    /\ Len(otps') >= Len(otps)
    /\ Len(otps') > Len(otps) =>
           /\ otps' = Append(otps, otps'[Len(otps')])
           /\ otps'[Len(otps')].attempts = 0
           /\ ~otps'[Len(otps')].verified
           /\ TokenKeys(cache') = TokenKeys(cache)
    /\ \A k \in TokenKeys(cache') :
           IF k \in TokenKeys(cache)
           THEN cache'[k] = cache[k]
           ELSE /\ TokenKeys(cache') = TokenKeys(cache) \cup {k}
                /\ otps' = otps
                /\ cache'[k].val = Len(otps)
                /\ cache'[k].exp = 4 * (now + otp_expiry)
                /\ otps[Len(otps)].attempts = 0
                /\ ~otps[Len(otps)].verified
    /\ \A p \in Procs :
           (soProc[p].pc = "quota_setex" /\ soProc'[p].pc = "idle") =>
               /\ soProc[p].otp_id \in 1 .. Len(otps)
               /\ \A k \in DOMAIN cache :
                      (k[1] = "otp_token" /\ cache[k].val = soProc[p].otp_id)
                          => k = TokenKey(soProc[p].otp_id)

\* C34: a successful send_otp creates one new record with attempts = 0 and
\* verified = false and one new token mapped to that record with a TTL of otp_expiry;
\* a token is never remapped, and distinct tokens resolve to distinct records.
C34_OneRecordOneToken == []TokensResolveApart /\ [][StoreOtpStep]_vars

\* two OTPs were sent and both send_otp calls have returned: two rows, each with its
\* own token still mapped
C34_Witness ==
    /\ soCalls = 2 /\ soProc["p1"].pc = "idle"
    /\ Len(otps) = 2
    /\ Has(cache, TokenKey(1), now) /\ cache[TokenKey(1)].val = 1
    /\ Has(cache, TokenKey(2), now) /\ cache[TokenKey(2)].val = 2
    /\ GetInt(cache, QuotaKey("+919876543210"), now) = 2

----------------------------------------------------------------------------
(* The session cache and the session rows *)

SessionKeys(c) == {k \in DOMAIN c : k[1] = "vendor_session"}

Quiet == \A p \in Procs : OtpIdle(p)

\* C35: each session cache entry keyed by an access token belongs to a session row whose
\* current access token is that key; once refresh_token has replaced a session's access
\* token, validate_session on the old access token returns unauthenticated.
C35_CacheMirrorsStore ==
    Quiet =>
        /\ \A k \in SessionKeys(cache) :
               Has(cache, k, now) => RowsBySessionToken(k[2]) # {}
        /\ (/\ ssPrev.op = "refresh" /\ ssPrev.res = "ok"
            /\ ssLast.op = "validate" /\ ssLast.token.type = "access"
            /\ ssLast.token # ssPrev.out
            /\ ssLast.at = ssPrev.at) => ssLast.res = "denied"

\* the rows and the cache entries a logout step takes away
RowsRemoved == {i \in 1 .. Len(sessions) : sessions[i] # NoRow /\ sessions'[i] = NoRow}

\* the steps of logout(token): the session of one login goes, and of the cache only the
\* entry under the token
LogoutOnlyThatSession ==
    \A p \in Procs :
        /\ (ssProc[p].pc = "idle" /\ ssProc'[p].pc = "lo_cache") =>
               /\ Cardinality(RowsRemoved) <= 1
               /\ \A i \in 1 .. Len(sessions) : i \notin RowsRemoved => sessions'[i] = sessions[i]
               /\ cache' = cache
        /\ (ssProc[p].pc = "lo_cache" /\ ssProc'[p].pc = "idle") =>
               /\ sessions' = sessions
               /\ \A k \in DOMAIN cache :
                      k # SessionKey(ssProc[p].token) => k \in DOMAIN cache' /\ cache'[k] = cache[k]

\* C36: logout(access_token) removes only the session of that login: every other
\* session, other sessions of the same vendor included, keeps its row and cache entry.
C36_LogoutOnlyThatSession == [][LogoutOnlyThatSession]_vars

\* the last two calls to return were a logout and a refresh_token, both successful
LogoutAndRefresh(lo, rt) ==
    /\ lo.op = "logout" /\ lo.res = "ok"
    /\ rt.op = "refresh" /\ rt.res = "ok"

NoSessionLeft == \A i \in 1 .. Len(sessions) : sessions[i] = NoRow

\* C37: when a logout and a refresh_token of one session have both finished and the
\* session's row is gone, neither the token logged out nor the token the refresh
\* returned is left in the cache as a valid session.
C37_LogoutBeatsRefresh ==
    (Quiet /\ NoSessionLeft) =>
        /\ LogoutAndRefresh(ssLast, ssPrev) =>
               /\ ~CachedSessionValid(cache, ssLast.token, now)
               /\ ~CachedSessionValid(cache, ssPrev.out, now)
        /\ LogoutAndRefresh(ssPrev, ssLast) =>
               /\ ~CachedSessionValid(cache, ssPrev.token, now)
               /\ ~CachedSessionValid(cache, ssLast.out, now)

----------------------------------------------------------------------------
(* Vendors *)

\* a vendor row is inserted only by a verify_otp call whose code has matched
VendorStep ==
    /\ Len(vendors') >= Len(vendors)
    /\ Len(vendors') > Len(vendors) =>
           \E p \in Procs :
               /\ voProc[p].pc = "vendor_write"
               /\ otps[voProc[p].otp_id].verified
               /\ vendors' = Append(vendors, [phone_number |-> voProc[p].identifier,
                                              status |-> "active"])

OneVendorPerIdentifier ==
    \A i, j \in 1 .. Len(vendors) :
        vendors[i].phone_number = vendors[j].phone_number => i = j

\* C38: at most one vendor exists per normalized identifier, also after two successful
\* verify_otp calls in parallel for different OTP records of one new identifier, and a
\* vendor is created only by a successful verification.
C38_OneVendorPerIdentifier == []OneVendorPerIdentifier /\ [][VendorStep]_vars

----------------------------------------------------------------------------
(* validate_session: the row lookup *)

\* the steps of validate_session once the token has decoded: a row past its expires_at
\* is deleted together with the cache entry, and when no row is found no cache entry is
\* left for the token; the call returns None in both cases
LookupStep ==
    \A p \in Procs :
        LET r == ssProc[p]
            ended == ssProc'[p].pc = "idle" /\ ~ssLast'.error
        IN  /\ (r.pc = "vs_select" /\ ended) =>
                   /\ ssLast'.res = "denied"
                   /\ RowsBySessionToken(r.token) = {}
                   /\ ~Has(cache', SessionKey(r.token), now')
            /\ (r.pc = "vs_select" /\ ssProc'[p] # r /\ storeUp
                    /\ RowsBySessionToken(r.token) # {}
                    /\ now > sessions[First(RowsBySessionToken(r.token))].expires_at) =>
                   ssProc'[p].pc = "vs_delete_row"
            /\ (r.pc = "vs_delete_row" /\ ssProc'[p] # r /\ ssProc'[p].pc # "idle") =>
                   ssProc'[p].pc = "vs_delete_cache" /\ sessions'[r.id] = NoRow
            /\ (r.pc = "vs_delete_cache" /\ ended) =>
                   /\ ssLast'.res = "denied"
                   /\ sessions'[r.id] = NoRow
                   /\ ~Has(cache', SessionKey(r.token), now')

VerifyEnds(res) ==
    /\ Len(voLog') = Len(voLog) + 1
    /\ voLog'[Len(voLog')].res = res

GuardStep ==
    \A k \in VerifyPairs :
        /\ VerifyEnds("InvalidCode") =>
               GetInt(cache', FailedKey(k[1], k[2]), now') >
                   GetInt(cache, FailedKey(k[1], k[2]), now)
        /\ (VerifyEnds("InvalidCode") \/ VerifyEnds("OK")) =>
               ~LockedOutNow(k[1], k[2]).locked
        /\ VerifyEnds("OK") =>
               /\ ~Has(cache', FailedKey(k[1], k[2]), now')
               /\ ~Has(cache', LockoutKey(k[1], k[2]), now')

\* C40: verify_otp consults the guard: a call that fails on a wrong code records a
\* failed attempt for the client and the verify-otp endpoint, no call of a client the
\* guard reports locked gets to compare a code, and a call that succeeds leaves the
\* client with no failure counter and no lockout.
C40_VerifyConsultsGuard == [][GuardStep]_vars

====
